---- MODULE Spec2Model ----
(***************************************************************************)
(* Course scheduler: the MILP model builder (services/solver.py), the      *)
(* pre-solve validation (services/validation.py) and the solve request     *)
(* (routes/solver_routes.py).                                              *)
(*                                                                         *)
(* Text (course codes, raw requirement tokens) is a sequence of            *)
(* one-character strings.  An optional value is <<>> (Python None) or <<v>>.*)
(* A node of a requirement tree is identified by its position in the tree  *)
(* (the sequence of child indexes from the root), where the code uses the  *)
(* object identity id(node).                                               *)
(***************************************************************************)
EXTENDS Integers, Sequences, FiniteSets, TLC

\* The largest semester number of the modelled plans.
MaxSem == 3

\* max_credits_per_semester.get(s, 9999)
DefaultCap == 9999

None == <<>>
Some(v) == <<v>>

Range(f) == {f[i] : i \in DOMAIN f}

Max(S) == CHOOSE m \in S : \A o \in S : o <= m

Min(S) == CHOOSE m \in S : \A o \in S : m <= o

\* sorted(S) for a finite set of integers
RECURSIVE Sorted(_)
Sorted(S) == IF S = {} THEN <<>> ELSE <<Min(S)>> \o Sorted(S \ {Min(S)})

(***************************************************************************)
(* str.strip()                                                             *)
(***************************************************************************)
IsSpace(ch) == ch \in {" ", "\t", "\n"}

RECURSIVE LStrip(_)
LStrip(s) == IF s # <<>> /\ IsSpace(Head(s)) THEN LStrip(Tail(s)) ELSE s

RECURSIVE RStrip(_)
RStrip(s) ==
    IF s # <<>> /\ IsSpace(s[Len(s)]) THEN RStrip(SubSeq(s, 1, Len(s) - 1)) ELSE s

Strip(s) == RStrip(LStrip(s))

(***************************************************************************)
(* services/req_ir.py: the requirement tree                                *)
(***************************************************************************)
ReqLeaf(code, raw, kind) ==
    [t |-> "leaf", code |-> code, raw |-> raw, kind |-> kind, items |-> <<>>]

ReqAnd(items) ==
    [t |-> "and", code |-> None, raw |-> <<>>, kind |-> "", items |-> items]

ReqOr(items) ==
    [t |-> "or", code |-> None, raw |-> <<>>, kind |-> "", items |-> items]

SolverWarning(course, raw, kind) == [course |-> course, raw |-> raw, kind |-> kind]

(***************************************************************************)
(* PuLP objects: variables, linear terms, named constraints                *)
(***************************************************************************)
XVar(c, s) == [k |-> "x", c |-> c, s |-> s, n |-> <<>>]

SatVar(c, s, n) == [k |-> "sat", c |-> c, s |-> s, n |-> n]

LastSemVar == [k |-> "last_sem", c |-> <<>>, s |-> 0, n |-> <<>>]

\* LpVariable(name, lowBound, upBound): upBound is optional
LpVariable(id, lo, hi) == [id |-> id, lo |-> lo, hi |-> hi]

Term(a, v) == [a |-> a, v |-> v]

Neg(terms) == [i \in 1..Len(terms) |-> Term(0 - terms[i].a, terms[i].v)]

CName(tag, c, s, n, i) == [tag |-> tag, c |-> c, s |-> s, n |-> n, i |-> i]

\* sum(terms) op rhs, with op one of "le", "ge", "eq"
Con(name, terms, op, rhs) == [name |-> name, terms |-> terms, op |-> op, rhs |-> rhs]

\* lpSum(x[code][t] for t in sems)
SumOfX(x, code, sems) == [i \in 1..Len(sems) |-> Term(1, x[code][sems[i]])]

\* variant: a semester counts as "before" s when it is s itself
scheduled_before_or_at_expr(x, allowed_semesters, course_code, s) ==
    SumOfX(x, course_code,
           SelectSeq(allowed_semesters[course_code], LAMBDA t : t <= s))

scheduled_before_expr(x, allowed_semesters, course_code, s) ==
    SumOfX(x, course_code,
           SelectSeq(allowed_semesters[course_code], LAMBDA t : t < s))

\* lpSum(s * x[code][s] for s in allowed_semesters[code])
_sem_expr(x, allowed_semesters, code) ==
    LET sems == allowed_semesters[code]
    IN  [i \in 1..Len(sems) |-> Term(sems[i], x[code][sems[i]])]

(***************************************************************************)
(* add_ir_prereq_constraints: the requirement tree of target_course as     *)
(* linear constraints.  acc carries what the calls append to: the created  *)
(* LpVariables, the model's constraints, the warnings list and seen_warn.  *)
(***************************************************************************)
AddCons(acc, cs) == [acc EXCEPT !.cons = @ \o cs]

\* variant: no guard against a key that was seen before
_warn_unguarded(acc, target_course, raw, kind) ==
    LET r == Strip(raw)
        k == IF kind \in {"external", "unresolved", "missing_course"}
             THEN kind ELSE "unresolved"
    IN  IF r = <<>> THEN acc
        ELSE [acc EXCEPT !.warnings = Append(@, SolverWarning(target_course, r, k))]

_warn(acc, target_course, raw, kind) ==
    LET r == Strip(raw)
        k == IF kind \in {"external", "unresolved", "missing_course"}
             THEN kind ELSE "unresolved"
        key == <<target_course, r, k>>
    IN  IF r = <<>> THEN acc
        ELSE IF key \in acc.seen THEN acc
        ELSE [acc EXCEPT !.seen = @ \cup {key},
                         !.warnings = Append(@, SolverWarning(target_course, r, k))]

\* model += z == 1
forced_true(z, tag, tc, s, n) == <<Con(CName(tag, tc, s, n, 0), <<Term(1, z)>>, "eq", 1)>>

\* model += z <= before;  model += z >= before
leaf_cons(z, before, tc, s, n) ==
    << Con(CName("sat_leaf_le", tc, s, n, 0), <<Term(1, z)>> \o Neg(before), "le", 0),
       Con(CName("sat_leaf_ge", tc, s, n, 0), <<Term(1, z)>> \o Neg(before), "ge", 0) >>

\* variant: the And variable is only bounded from above
and_cons_upper_only(z, child_zs, tc, s, n) ==
    [i \in 1..Len(child_zs) |->
        Con(CName("sat_and_le", tc, s, n, i - 1),
            <<Term(1, z), Term(-1, child_zs[i])>>, "le", 0)]

\* model += z <= cz for every child;  model += z >= lpSum(child_zs) - (len(child_zs) - 1)
and_cons(z, child_zs, tc, s, n) ==
    [i \in 1..Len(child_zs) |->
        Con(CName("sat_and_le", tc, s, n, i - 1),
            <<Term(1, z), Term(-1, child_zs[i])>>, "le", 0)]
    \o << Con(CName("sat_and_ge", tc, s, n, 0),
              <<Term(1, z)>> \o [i \in 1..Len(child_zs) |-> Term(-1, child_zs[i])],
              "ge", 0 - (Len(child_zs) - 1)) >>

\* model += z >= cz for every child;  model += z <= lpSum(child_zs)
or_cons(z, child_zs, tc, s, n) ==
    [i \in 1..Len(child_zs) |->
        Con(CName("sat_or_ge", tc, s, n, i - 1),
            <<Term(1, z), Term(-1, child_zs[i])>>, "ge", 0)]
    \o << Con(CName("sat_or_le", tc, s, n, 0),
              <<Term(1, z)>> \o [i \in 1..Len(child_zs) |-> Term(-1, child_zs[i])],
              "le", 0) >>

\* variant: the leaf without a code is forced true without a warning
sat_leaf_ignored_silent(acc, node, z, tc, s, n) ==
    AddCons(acc, forced_true(z, "sat_leaf_ignored", tc, s, n))

\* the leaf branch of sat for a leaf without a code
sat_leaf_ignored(acc, node, z, tc, s, n) ==
    LET raw == Strip(node.raw)
        kind == IF node.kind \in {"external", "unresolved"} THEN node.kind
                ELSE "unresolved"
    IN  AddCons(_warn(acc, tc, raw, kind), forced_true(z, "sat_leaf_ignored", tc, s, n))

\* variant: the missing course is reported like an unresolved token
sat_leaf_missing_as_unresolved(acc, node, z, tc, s, n) ==
    AddCons(_warn(acc, tc, node.code[1], "unresolved"),
            forced_true(z, "sat_leaf_missing", tc, s, n))

\* the leaf branch of sat for a code that is no key of allowed_semesters
sat_leaf_missing(acc, node, z, tc, s, n) ==
    AddCons(_warn(acc, tc, node.code[1], "missing_course"),
            forced_true(z, "sat_leaf_missing", tc, s, n))

RECURSIVE sat(_, _, _, _, _, _, _)
RECURSIVE sat_items(_, _, _, _, _, _, _, _)
\* child_zs = [sat(ch, s) for ch in items], the children from the i-th on
sat_items(items, i, n, s, tc, x, allowed_semesters, acc) ==
    IF i > Len(items) THEN acc
    ELSE sat_items(items, i + 1, n, s, tc, x, allowed_semesters,
                   sat(items[i], Append(n, i), s, tc, x, allowed_semesters, acc))

sat(node, n, s, tc, x, allowed_semesters, acc) ==
    LET z  == SatVar(tc, s, n)
        a0 == [acc EXCEPT !.lpvars = Append(@, LpVariable(z, 0, Some(1)))]
        child_zs == [i \in 1..Len(node.items) |-> SatVar(tc, s, Append(n, i))]
    IN  IF node.t = "leaf" THEN
            IF node.code = None THEN sat_leaf_ignored(a0, node, z, tc, s, n)
            ELSE IF node.code[1] \notin DOMAIN allowed_semesters
                 THEN sat_leaf_missing(a0, node, z, tc, s, n)
            ELSE AddCons(a0, leaf_cons(z,
                     scheduled_before_expr(x, allowed_semesters, node.code[1], s),
                     tc, s, n))
        ELSE IF node.t = "and" THEN
            IF node.items = <<>> THEN AddCons(a0, forced_true(z, "sat_and_empty", tc, s, n))
            ELSE AddCons(sat_items(node.items, 1, n, s, tc, x, allowed_semesters, a0),
                         and_cons(z, child_zs, tc, s, n))
        ELSE
            IF node.items = <<>> THEN AddCons(a0, forced_true(z, "sat_or_empty", tc, s, n))
            ELSE AddCons(sat_items(node.items, 1, n, s, tc, x, allowed_semesters, a0),
                         or_cons(z, child_zs, tc, s, n))

\* model += x[target_course][s] <= sat(prereq_tree, s)
prereq_ir(x, tc, s) ==
    <<Con(CName("prereq_ir", tc, s, <<>>, 0),
          <<Term(1, x[tc][s]), Term(-1, SatVar(tc, s, <<>>))>>, "le", 0)>>

RECURSIVE root_loop(_, _, _, _, _, _)
\* for s in allowed_semesters[target_course], from the i-th semester on
root_loop(i, tc, tree, x, allowed_semesters, acc) ==
    IF i > Len(allowed_semesters[tc]) THEN acc
    ELSE LET s == allowed_semesters[tc][i]
             after == AddCons(sat(tree, <<>>, s, tc, x, allowed_semesters, acc),
                              prereq_ir(x, tc, s))
         IN  \* an iteration adds constraints; TLC computes it for the test, before
             \* it enters the next iteration
             CASE after.cons # <<>> ->
                     root_loop(i + 1, tc, tree, x, allowed_semesters, after)

\* seen_warn starts empty in every call; warnings is the caller's list
add_ir_prereq_constraints(acc, tc, tree, x, allowed_semesters) ==
    root_loop(1, tc, tree, x, allowed_semesters, [acc EXCEPT !.seen = {}])

(***************************************************************************)
(* build_model, one definition per section of the function                 *)
(***************************************************************************)
\* d.get(k, default)
Get(d, k, default) == IF k \in DOMAIN d THEN d[k] ELSE default

\* the first course whose allowed-semester list is empty or missing; 0 if none
FirstWithoutSemesters(courses, allowed_semesters) ==
    LET bad == {i \in 1..Len(courses) : Get(allowed_semesters, courses[i], <<>>) = <<>>}
    IN  IF bad = {} THEN 0 ELSE Min(bad)

\* variant: only a course without any list is refused
no_offerings_raises_missing_only(courses, allowed_semesters) ==
    \E i \in 1..Len(courses) : courses[i] \notin DOMAIN allowed_semesters

no_offerings_raises(courses, allowed_semesters) ==
    FirstWithoutSemesters(courses, allowed_semesters) # 0

\* the dict x after the loop over the first k courses
decision_vars(courses, allowed_semesters, k) ==
    [c \in {courses[i] : i \in 1..k} |->
        [s \in Range(allowed_semesters[c]) |-> XVar(c, s)]]

RECURSIVE decision_lpvars(_, _, _)
\* the LpVariables the loop creates for the first k courses, in creation order
decision_lpvars(courses, allowed_semesters, k) ==
    IF k = 0 THEN <<>>
    ELSE LET c == courses[k]
             sems == allowed_semesters[c]
         IN  decision_lpvars(courses, allowed_semesters, k - 1)
             \o [i \in 1..Len(sems) |-> LpVariable(XVar(c, sems[i]), 0, Some(1))]

\* variant: at most one semester per course
one_sem_at_most(x, allowed_semesters, c) ==
    Con(CName("one_sem", c, 0, <<>>, 0), SumOfX(x, c, allowed_semesters[c]), "le", 1)

\* model += lpSum(x[c][s] for s in allowed_semesters[c]) == 1
one_sem(x, allowed_semesters, c) ==
    Con(CName("one_sem", c, 0, <<>>, 0), SumOfX(x, c, allowed_semesters[c]), "eq", 1)

\* sorted({s for sems in allowed_semesters.values() for s in sems})
all_semesters(allowed_semesters) ==
    Sorted(UNION {Range(allowed_semesters[c]) : c \in DOMAIN allowed_semesters})

\* variant: every semester gets the default cap
max_credits_sem_default_cap(courses, x, allowed_semesters, credits, max_credits_per_semester, s) ==
    LET cs == SelectSeq(courses, LAMBDA c : s \in Range(allowed_semesters[c]))
    IN  Con(CName("max_credits_sem", <<>>, s, <<>>, 0),
            [i \in 1..Len(cs) |-> Term(credits[cs[i]], x[cs[i]][s])],
            "le", DefaultCap)

\* lpSum(credits[c] * x[c][s] for c in courses if s in allowed_semesters[c])
\*     <= max_credits_per_semester.get(s, 9999)
max_credits_sem(courses, x, allowed_semesters, credits, max_credits_per_semester, s) ==
    LET cs == SelectSeq(courses, LAMBDA c : s \in Range(allowed_semesters[c]))
    IN  Con(CName("max_credits_sem", <<>>, s, <<>>, 0),
            [i \in 1..Len(cs) |-> Term(credits[cs[i]], x[cs[i]][s])],
            "le", Get(max_credits_per_semester, s, DefaultCap))

RECURSIVE prereq_loop(_, _, _, _, _, _)
\* for c in courses: tree = prereq_trees.get(c); skip None; add_ir_prereq_constraints
prereq_loop(i, courses, prereq_trees, x, allowed_semesters, acc) ==
    IF i > Len(courses) THEN acc
    ELSE LET c == courses[i]
             after == IF c \in DOMAIN prereq_trees
                      THEN add_ir_prereq_constraints(acc, c, prereq_trees[c], x,
                                                     allowed_semesters)
                      ELSE acc
         IN  \* the placement constraints are in the model; TLC computes the
             \* iteration for the test, before it enters the next one
             CASE after.cons # <<>> ->
                     prereq_loop(i + 1, courses, prereq_trees, x, allowed_semesters, after)

\* model += _sem_expr(x, allowed_semesters, c) <= last_sem
last_sem_after(x, allowed_semesters, c) ==
    Con(CName("last_sem_after", c, 0, <<>>, 0),
        _sem_expr(x, allowed_semesters, c) \o <<Term(-1, LastSemVar)>>, "le", 0)

RECURSIVE Flatten(_)
Flatten(ss) == IF ss = <<>> THEN <<>> ELSE Head(ss) \o Flatten(Tail(ss))

\* the objective expression of the model
objective_expr(courses, x, allowed_semesters, minimize_last_semester) ==
    IF minimize_last_semester THEN <<Term(1, LastSemVar)>>
    ELSE Flatten([i \in 1..Len(courses) |-> _sem_expr(x, allowed_semesters, courses[i])])

(***************************************************************************)
(* model.solve(PULP_CBC_CMD): the solver returns an assignment of the      *)
(* variables within their bounds that satisfies every constraint and       *)
(* minimises the objective, or reports that there is none.  The search     *)
(* assigns the variables in creation order and drops a partial assignment  *)
(* as soon as a constraint whose variables are all assigned is violated.   *)
(***************************************************************************)
RECURSIVE Eval(_, _)
Eval(terms, asg) ==
    IF terms = <<>> THEN 0
    ELSE Head(terms).a * asg[Head(terms).v] + Eval(Tail(terms), asg)

Holds(con, asg) ==
    LET v == Eval(con.terms, asg)
    IN  CASE con.op = "le" -> v <= con.rhs
          [] con.op = "ge" -> v >= con.rhs
          [] con.op = "eq" -> v = con.rhs

\* an integer variable without upBound is searched up to the largest semester + 1
SearchCeiling == MaxSem + 1

VarDomain(v) == v.lo .. (IF v.hi = None THEN SearchCeiling ELSE v.hi[1])

\* the position of a variable in creation order
IndexOf(lpvars, v) == CHOOSE k \in 1..Len(lpvars) : lpvars[k].id = v

\* the position of the last created variable of a constraint, 0 without variables
LastVar(lpvars, con) ==
    IF con.terms = <<>> THEN 0
    ELSE Max({IndexOf(lpvars, con.terms[t].v) : t \in 1..Len(con.terms)})

\* for every variable, the constraints that can be decided once it has a value
DueAt(lpvars, cons) ==
    LET n == Len(lpvars)
        last == SubSeq([j \in 1..Len(cons) |-> LastVar(lpvars, cons[j])], 1, Len(cons))
    IN  SubSeq([i \in 1..n |-> {cons[j] : j \in {k \in 1..Len(cons) : last[k] = i}}], 1, n)

RECURSIVE Search(_, _, _, _)
Search(lpvars, due, i, asg) ==
    IF i > Len(lpvars) THEN {asg}
    ELSE LET id == lpvars[i].id
         IN  UNION { LET a2 == (id :> d) @@ asg
                     IN  IF \A con \in due[i] : Holds(con, a2)
                         THEN Search(lpvars, due, i + 1, a2)
                         ELSE {}
                     : d \in VarDomain(lpvars[i]) }

EmptyAsg == [v \in {} |-> 0]

\* every assignment that satisfies the model
Solutions(lpvars, cons) ==
    IF \E j \in 1..Len(cons) : cons[j].terms = <<>> /\ ~Holds(cons[j], EmptyAsg)
    THEN {}
    ELSE Search(lpvars, DueAt(lpvars, cons), 1, EmptyAsg)

\* the assignments of F with the smallest objective value
Optimal(F, objective) ==
    LET best == Min({Eval(objective, a) : a \in F})
    IN  {a \in F : Eval(objective, a) = best}

\* first allowed semester whose variable value exceeds 0.5, else None
_chosen_semester(x, values, allowed_semesters, code) ==
    LET sems == allowed_semesters[code]
        hit == {i \in 1..Len(sems) :
                   LET v == values[x[code][sems[i]]]
                   IN  v # None /\ 2 * v[1] > 1}
    IN  IF hit = {} THEN None ELSE Some(sems[Min(hit)])

(***************************************************************************)
(* services/validation.py                                                  *)
(***************************************************************************)
Hint(kind, courses, nums, status) ==
    [kind |-> kind, courses |-> courses, nums |-> nums, status |-> status]

\* int(val), None for None; credit values are whole numbers here
_safe_int(val) == val

\* credits.get(c)
credit_of(credits, c) == IF c \in DOMAIN credits THEN Some(credits[c]) ELSE None

RECURSIVE SumCredits(_, _)
SumCredits(courses, credits) ==
    IF courses = <<>> THEN 0
    ELSE (IF _safe_int(credit_of(credits, Head(courses))) = None THEN 0
          ELSE credit_of(credits, Head(courses))[1])
         + SumCredits(Tail(courses), credits)

\* variant: Rule 1 only looks for courses without any list
rule_no_allowed_missing_only(courses, allowed) ==
    LET bad == SelectSeq(courses, LAMBDA c : c \notin DOMAIN allowed)
    IN  [i \in 1..Len(bad) |-> Hint("no_allowed_semesters", <<bad[i]>>, <<>>, "")]

\* Rule 1: one hint per course without allowed semesters
rule_no_allowed(courses, allowed) ==
    LET bad == SelectSeq(courses, LAMBDA c : Get(allowed, c, <<>>) = <<>>)
    IN  [i \in 1..Len(bad) |-> Hint("no_allowed_semesters", <<bad[i]>>, <<>>, "")]

\* Rule 2: one hint per course with more credits than the smallest per-semester cap
rule_course_exceeds(courses, credits, max_limit) ==
    IF max_limit # None /\ max_limit[1] > 0
    THEN LET big == SelectSeq(courses,
                        LAMBDA c : /\ _safe_int(credit_of(credits, c)) # None
                                   /\ credit_of(credits, c)[1] > max_limit[1])
         IN  [i \in 1..Len(big) |->
                 Hint("course_exceeds_max", <<big[i]>>,
                      <<credits[big[i]], max_limit[1]>>, "")]
    ELSE <<>>

\* Rule 3: total credits against total_semesters * max_limit
rule_capacity(courses, credits, total_semesters, max_limit) ==
    IF /\ total_semesters # None /\ max_limit # None
       /\ total_semesters[1] > 0 /\ max_limit[1] > 0
    THEN LET total_credits == SumCredits(courses, credits)
             unknown == \E i \in 1..Len(courses) :
                            _safe_int(credit_of(credits, courses[i])) = None
             capacity == total_semesters[1] * max_limit[1]
         IN  IF total_credits > capacity
             THEN <<Hint("total_exceeds_capacity", <<>>,
                         <<total_credits, total_semesters[1], max_limit[1], capacity>>, "")>>
             ELSE IF unknown THEN <<Hint("unknown_credits", <<>>, <<>>, "")>>
             ELSE <<>>
    ELSE <<>>

validate_inputs_before_solve(inp) ==
    LET courses == inp.courses
        allowed == inp.allowed_semesters
        credits == inp.credits
        max_by_sem == inp.max_credits_per_semester
        total_semesters == IF DOMAIN max_by_sem = {} THEN None
                           ELSE Some(Max(DOMAIN max_by_sem))
        max_limit == IF DOMAIN max_by_sem = {} THEN None
                     ELSE Some(Min(Range(max_by_sem)))
    IN  IF courses = <<>> THEN <<Hint("no_courses", <<>>, <<>>, "")>>
        ELSE rule_no_allowed(courses, allowed)
             \o rule_course_exceeds(courses, credits, max_limit)
             \o rule_capacity(courses, credits, total_semesters, max_limit)

(***************************************************************************)
(* routes/solver_routes.py                                                 *)
(***************************************************************************)
RECURSIVE _dedupe_from(_, _, _)
_dedupe_from(warnings, i, seen) ==
    IF i > Len(warnings) THEN <<>>
    ELSE LET w == warnings[i]
             key == <<Strip(w.course), w.kind, Strip(w.raw)>>
         IN  IF key \in seen THEN _dedupe_from(warnings, i + 1, seen)
             ELSE <<w>> \o _dedupe_from(warnings, i + 1, seen \cup {key})

_dedupe_warnings(warnings) == _dedupe_from(warnings, 1, {})

\* the order of course codes: character by character, then by length
Alphabet == <<" ", "A", "B", "C", "D", "M", "e", "u">>

CharRank(ch) == CHOOSE i \in 1..Len(Alphabet) : Alphabet[i] = ch

RECURSIVE StrLess(_, _)
StrLess(a, b) ==
    IF b = <<>> THEN FALSE
    ELSE IF a = <<>> THEN TRUE
    ELSE IF Head(a) = Head(b) THEN StrLess(Tail(a), Tail(b))
    ELSE CharRank(Head(a)) < CharRank(Head(b))

RECURSIVE SortedCodes(_)
SortedCodes(S) ==
    IF S = {} THEN <<>>
    ELSE LET m == CHOOSE c \in S : \A o \in S \ {c} : StrLess(c, o)
         IN  <<m>> \o SortedCodes(S \ {m})

\* courses_by_semester of an Optimal result: the codes placed in each semester of the
\* plan, sorted by code; a course placed nowhere or outside `semesters` is skipped
placed_by_semester(semesters, schedule) ==
    [s \in semesters |->
        SortedCodes({c \in DOMAIN schedule : schedule[c] = Some(s)})]

\* the hints of a solve that did not end Optimal
not_optimal_hints(inp, status) ==
    LET no_offerings == SelectSeq(inp.courses,
                            LAMBDA c : Get(inp.allowed_semesters, c, <<>>) = <<>>)
    IN  (IF no_offerings # <<>>
         THEN <<Hint("no_offerings", no_offerings, <<>>, "")>> ELSE <<>>)
        \o (IF status = "Infeasible" THEN <<Hint("infeasible", <<>>, <<>>, "")>>
            ELSE <<Hint("solver_status", <<>>, <<>>, status)>>)

Snapshot(status, semesters, courses_by_semester, infeasible_hints, warnings, phase, fl) ==
    [status |-> status, semesters |-> semesters,
     courses_by_semester |-> courses_by_semester,
     infeasible_hints |-> infeasible_hints, warnings |-> warnings,
     meta |-> [use_prereqs |-> fl.use_prereqs,
               use_credit_limits |-> fl.use_credit_limits,
               minimize_last_semester |-> fl.minimize_last_semester,
               phase |-> phase]]

\* delete the plan's rows, insert the fresh one
_save_latest_solution(rows, snapshot) == <<snapshot>>

(***************************************************************************)
(* utils/course_catalog.py and utils/req_parser.py: text, the token         *)
(* resolver and the requirement parser.  A character is a one-character     *)
(* string; the en-dash is written EnDash.                                   *)
(***************************************************************************)
EnDash == "endash"

Digits == {"1", "2"}

\* str.isdigit()
isdigit(s) == s # <<>> /\ \A i \in 1..Len(s) : s[i] \in Digits

\* re.sub(r"\s+", " ", s)
RECURSIVE CollapseSpaces(_)
CollapseSpaces(s) ==
    IF s = <<>> THEN <<>>
    ELSE IF IsSpace(Head(s)) THEN <<" ">> \o CollapseSpaces(LStrip(Tail(s)))
    ELSE <<Head(s)>> \o CollapseSpaces(Tail(s))

\* s.replace(pat, rep), pat not empty
RECURSIVE Replace(_, _, _)
Replace(s, pat, rep) ==
    IF Len(s) < Len(pat) THEN s
    ELSE IF SubSeq(s, 1, Len(pat)) = pat
         THEN rep \o Replace(SubSeq(s, Len(pat) + 1, Len(s)), pat, rep)
    ELSE <<Head(s)>> \o Replace(Tail(s), pat, rep)

\* pat in s
Contains(s, pat) ==
    \E i \in 1..(Len(s) - Len(pat) + 1) : SubSeq(s, i, i + Len(pat) - 1) = pat

\* strip, drop the quote characters, collapse whitespace
normalize_name_key(s) ==
    CollapseSpaces(SelectSeq(Strip(s), LAMBDA ch : ch \notin {"\"", "'"}))

\* variant: the en-dash is kept
normalize_text_keep_dash(s) == CollapseSpaces(Strip(s))

\* strip, en-dash to hyphen, collapse whitespace
normalize_text(s) ==
    CollapseSpaces([i \in 1..Len(Strip(s)) |->
                       IF Strip(s)[i] = EnDash THEN "-" ELSE Strip(s)[i]])

\* s.split(sep): the parts between the separators, empty parts included
RECURSIVE Split(_, _)
Split(s, sep) ==
    LET at == {i \in 1..Len(s) : s[i] = sep}
    IN  IF at = {} THEN <<s>>
        ELSE <<SubSeq(s, 1, Min(at) - 1)>> \o Split(SubSeq(s, Min(at) + 1, Len(s)), sep)

\* [p.strip() for p in s.split(sep) if p.strip()]
split_top(s, sep) ==
    LET parts == Split(s, sep)
        kept == SelectSeq(parts, LAMBDA p : Strip(p) # <<>>)
    IN  [i \in 1..Len(kept) |-> Strip(kept[i])]

\* CatalogCourse(code, name)
CatalogCourse(code, name) == [code |-> code, name |-> name]

\* one row of aliases.csv: alias,canonical
AliasRow(alias, canonical) == [alias |-> alias, canonical |-> canonical]

\* ExternalRules(exact, patterns); a pattern is a literal, searched anywhere
ExternalRules(exact, patterns) == [exact |-> exact, patterns |-> patterns]

MinCodeDigits == 5

\* by_code = {c.code: c for c in catalog}
by_code(catalog) == {catalog[i].code : i \in 1..Len(catalog)}

\* by_name = {normalize_name_key(c.name): c.code for c in catalog}; .get(key)
by_name_get(catalog, key) ==
    LET at == {i \in 1..Len(catalog) : normalize_name_key(catalog[i].name) = key}
    IN  IF at = {} THEN None ELSE Some(catalog[Max(at)].code)

\* alias_map_norm[normalize_name_key(a)] = (canon or "").strip(); .get(t)
alias_map_norm_get(aliases, t) ==
    LET at == {i \in 1..Len(aliases) : normalize_name_key(aliases[i].alias) = t}
    IN  IF at = {} THEN None ELSE Some(Strip(aliases[Max(at)].canonical))

is_external_token(token, rules) ==
    LET t == normalize_name_key(token)
    IN  \/ t \in rules.exact
        \/ \E pat \in rules.patterns : Contains(t, pat)

\* the tuple resolve returns: (code | None, raw, kind)
Resolved(code, raw, kind) == [code |-> code, raw |-> raw, kind |-> kind]

\* variant: the numeric heuristic comes after the name match and the external rules
resolve_unaliased_digits_last(catalog, rules, token, t) ==
    IF t \in by_code(catalog) THEN Resolved(Some(t), token, "internal")
    ELSE IF by_name_get(catalog, t) # None /\ by_name_get(catalog, t)[1] # <<>>
         THEN Resolved(by_name_get(catalog, t), token, "internal")
    ELSE IF is_external_token(t, rules) THEN Resolved(None, token, "external")
    ELSE Resolved(None, token, "unresolved")

\* steps 1 to 4 of resolve, for a token whose key t has no alias
resolve_unaliased(catalog, rules, token, t) ==
    IF t \in by_code(catalog) THEN Resolved(Some(t), token, "internal")
    ELSE IF isdigit(t) /\ Len(t) >= MinCodeDigits THEN Resolved(None, token, "unresolved")
    ELSE IF by_name_get(catalog, t) # None /\ by_name_get(catalog, t)[1] # <<>>
         THEN Resolved(by_name_get(catalog, t), token, "internal")
    ELSE IF is_external_token(t, rules) THEN Resolved(None, token, "external")
    ELSE Resolved(None, token, "unresolved")

\* variant: an alias to digits is internal whether or not the catalog has the code
resolve_alias_trusting(catalog, canon, token) ==
    LET canon_norm == normalize_name_key(canon)
        code == by_name_get(catalog, canon_norm)
    IN  IF isdigit(canon_norm)
        THEN Resolved(IF canon_norm \in by_code(catalog) THEN Some(canon_norm) ELSE None,
                      token, "internal")
        ELSE IF code # None /\ code[1] # <<>>
             THEN Resolved(code, token, "internal")
             ELSE Resolved(None, token, "unresolved")

\* step 0 of resolve: the alias's canonical target decides
resolve_alias(catalog, canon, token) ==
    LET canon_norm == normalize_name_key(canon)
        code == by_name_get(catalog, canon_norm)
    IN  IF isdigit(canon_norm)
        THEN IF canon_norm \in by_code(catalog)
             THEN Resolved(Some(canon_norm), token, "internal")
             ELSE Resolved(None, token, "unresolved")
        ELSE IF code # None /\ code[1] # <<>>
             THEN Resolved(code, token, "internal")
             ELSE Resolved(None, token, "unresolved")

\* build_resolver(catalog, alias_map, external_rules)(token)
resolve(catalog, aliases, rules, token) ==
    LET t == normalize_name_key(token)
        canon == alias_map_norm_get(aliases, t)
    IN  IF canon # None /\ canon[1] # <<>>
        THEN resolve_alias(catalog, canon[1], token)
        ELSE resolve_unaliased(catalog, rules, token, t)

\* variant: a leaf is usable unless it is external
_is_valid_split_item_not_external(node) ==
    node # None /\ (node[1].t = "leaf" => node[1].kind # "external")

\* variant: every parsed item is usable
_is_valid_split_item_any(node) == node # None

\* a leaf is usable in a split when it has a code or is external; an And/Or
\* when all its children are; None is not
RECURSIVE _is_valid_split_item(_)
_is_valid_split_item(node) ==
    IF node = None THEN FALSE
    ELSE IF node[1].t = "leaf" THEN node[1].code # None \/ node[1].kind = "external"
    ELSE \A i \in 1..Len(node[1].items) : _is_valid_split_item(Some(node[1].items[i]))

\* variant: the test on seen is inverted, only repeated items are kept
dedupe_repeated_only(items) ==
    LET kept == SelectSeq([i \in 1..Len(items) |-> <<i, items[i]>>],
                          LAMBDA p : \E j \in 1..(p[1] - 1) : items[j] = p[2])
    IN  [i \in 1..Len(kept) |-> kept[i][2]]

\* variant: keeps every item
dedupe_keep_all(items) == items

\* keeps the first of structurally equal items
dedupe(items) ==
    LET kept == SelectSeq([i \in 1..Len(items) |-> <<i, items[i]>>],
                          LAMBDA p : \A j \in 1..(p[1] - 1) : items[j] # p[2])
    IN  [i \in 1..Len(kept) |-> kept[i][2]]

Unwrap(items) == [i \in 1..Len(items) |-> items[i][1]]

\* variant: a split is used whatever its children are
split_used_always(items) == TRUE

\* all(_is_valid_split_item(i) for i in items)
split_used(items) == \A i \in 1..Len(items) : _is_valid_split_item(items[i])

\* variant: the emptiness test comes after normalisation
is_empty_text_normalized(text) == normalize_text(text) = <<>>

\* if not text
is_empty_text(text) == text = <<>>

\* the two repairs of a mis-ordered "C++"
repair_cpp(text) ==
    Replace(Replace(text, <<"+", "+", "C">>, <<"C", "+", "+">>),
            <<" ", "+", " ", "+", "C">>, <<" ", "C", "+", "+">>)

\* variant: the OR level is never tried
has_or_level_never(text) == FALSE

\* OR level: if "/" in text, tried before the AND level
has_or_level(text) == "/" \in Range(text)

\* parse_req_text(text, resolve); R is the resolver's configuration
RECURSIVE parse_req_text(_, _)
parse_req_text(text, R) ==
    IF is_empty_text(text) THEN None
    ELSE
      LET norm == repair_cpp(normalize_text(text))
          leaf == LET r == resolve(R.catalog, R.aliases, R.rules, norm)
                  IN  Some(ReqLeaf(r.code, r.raw, r.kind))
          or_items == LET parts == split_top(norm, "/")
                      IN  [i \in 1..Len(parts) |-> parse_req_text(parts[i], R)]
          and_items == LET parts == split_top(norm, "+")
                       IN  [i \in 1..Len(parts) |-> parse_req_text(parts[i], R)]
      IN  IF has_or_level(norm) /\ split_used(or_items)
          THEN Some(ReqOr(dedupe(Unwrap(or_items))))
          ELSE IF "+" \in Range(norm) /\ split_used(and_items)
          THEN Some(ReqAnd(dedupe(Unwrap(and_items))))
          ELSE leaf

(***************************************************************************)
(* The inputs of the modelled solves                                       *)
(***************************************************************************)
cA == <<"A">>
cB == <<"B">>
cC == <<"C">>
\* a catalog course that is not in the plan
cM == <<"M">>

PlanCourses == <<cA, cB, cC>>

LA == ReqLeaf(Some(cA), cA, "internal")
LB == ReqLeaf(Some(cB), cB, "internal")
LC == ReqLeaf(Some(cC), cC, "internal")
LM == ReqLeaf(Some(cM), cM, "internal")
LE == ReqLeaf(None, <<"e">>, "external")
LU == ReqLeaf(None, <<"u">>, "unresolved")
LEmpty == ReqLeaf(None, <<>>, "unresolved")

\* requirement trees of course C
TreesOfC ==
    { LA, LB, LM, LE, LU, LEmpty,
      ReqAnd(<<LA, LB>>), ReqOr(<<LA, LB>>),
      ReqAnd(<<LA, ReqOr(<<LB, LE>>)>>),
      ReqOr(<<ReqAnd(<<LA, LB>>), LM>>),
      ReqOr(<<LA, ReqAnd(<<LA, LB>>)>>),
      ReqAnd(<<LE, ReqOr(<<LE, LA>>)>>),
      ReqAnd(<<LE, LM, ReqOr(<<LM, LB>>)>>) }

EmptyDict == [k \in {} |-> 0]

\* prereq_trees: course -> tree; a course without a requirement has no entry
TreeProfiles ==
    {EmptyDict}
    \cup {(cC :> tr) : tr \in TreesOfC}
    \cup { (cB :> LA) @@ (cC :> LB),
           (cB :> LA) @@ (cC :> ReqAnd(<<LA, LB>>)),
           (cA :> LB) @@ (cB :> LA),
           (cA :> LE) @@ (cC :> LE),
           (cC :> LC) }

Windows == {[i \in 1..(hi - lo + 1) |-> lo + i - 1] : lo \in 1..MaxSem, hi \in 1..MaxSem} \ {<<>>}

Flags(c, p, m) == [use_credit_limits |-> c, use_prereqs |-> p, minimize_last_semester |-> m]

Inputs(courses, trees, allowed, credits, caps) ==
    [courses |-> courses, prereq_trees |-> trees, allowed_semesters |-> allowed,
     credits |-> credits, max_credits_per_semester |-> caps]

Scenario(entry_, inp, fl) == [entry |-> entry_, inputs |-> inp, flags |-> fl]

UnitCredits == (cA :> 2) @@ (cB :> 2) @@ (cC :> 1)

FullWindow == [i \in 1..MaxSem |-> i]

PrefixWindows == {[i \in 1..hi |-> i] : hi \in 1..MaxSem}

\* prerequisite trees against offering windows, no credit limits
PrereqScenarios ==
    { Scenario("service",
               Inputs(PlanCourses, trees,
                      (cA :> wa) @@ (cB :> wb) @@ (cC :> wc),
                      UnitCredits, [s \in 1..MaxSem |-> DefaultCap]),
               Flags(FALSE, TRUE, TRUE))
      : trees \in TreeProfiles, wa \in Windows, wb \in {FullWindow, <<1>>},
        wc \in {FullWindow, <<1>>, <<MaxSem>>} }

\* the inputs of a plan with a cap on the credits of the semesters 1..total; the
\* offerings may reach beyond the semesters of the plan
LimitInputs(trees, w, total, cap) ==
    Inputs(PlanCourses, trees, (cA :> w) @@ (cB :> w) @@ (cC :> FullWindow),
           UnitCredits, [s \in 1..total |-> cap])

\* a request under every combination of the flags, and a direct call of the service
\* with the credit limits on
LimitScenarios ==
    { Scenario("route", LimitInputs(trees, w, total, cap), Flags(c, p, m))
      : trees \in {EmptyDict, (cB :> LA) @@ (cC :> LB), (cC :> LE)},
        w \in PrefixWindows, total \in {MaxSem - 1, MaxSem}, cap \in 1..4,
        c \in BOOLEAN, p \in BOOLEAN, m \in BOOLEAN }
    \cup
    { Scenario("service", LimitInputs(trees, w, total, cap), Flags(TRUE, p, m))
      : trees \in {EmptyDict, (cB :> LA) @@ (cC :> LB)},
        w \in PrefixWindows, total \in {MaxSem - 1, MaxSem}, cap \in 1..4,
        p \in BOOLEAN, m \in BOOLEAN }

\* one course has an empty list of allowed semesters, or no list at all
NoOfferingScenarios ==
    { Scenario(e,
               Inputs(PlanCourses, trees,
                      IF missing
                      THEN [c \in Range(PlanCourses) \ {bad} |-> FullWindow]
                      ELSE [c \in Range(PlanCourses) |->
                               IF c = bad THEN <<>> ELSE FullWindow],
                      UnitCredits, [s \in 1..MaxSem |-> cap]),
               Flags(TRUE, TRUE, TRUE))
      : e \in {"route", "service"}, bad \in Range(PlanCourses), missing \in BOOLEAN,
        trees \in {EmptyDict, (cB :> LA) @@ (cC :> LB)}, cap \in {1, DefaultCap} }

\* offerings stored with the semester number 0 (edit_offerings keeps any integer)
ZeroSemesterScenarios ==
    { Scenario(e,
               Inputs(PlanCourses, trees,
                      (cA :> wa) @@ (cB :> wb) @@ (cC :> wc),
                      UnitCredits, [s \in 1..MaxSem |-> DefaultCap]),
               Flags(TRUE, TRUE, m))
      : e \in {"route", "service"}, trees \in {EmptyDict, (cC :> LA)},
        wa \in {<<0>>, <<0, 1>>}, wb \in {<<0>>, <<0, 1>>}, wc \in {<<0, 1>>, <<1, 2>>},
        m \in BOOLEAN }

\* the plan {A requires B, B requires A}
CyclePlan(w) ==
    Inputs(<<cA, cB>>, (cA :> LB) @@ (cB :> LA), (cA :> w) @@ (cB :> w),
           (cA :> 2) @@ (cB :> 2), [s \in 1..MaxSem |-> DefaultCap])

\* a request for the plan with the prerequisite cycle
CycleScenarios ==
    { Scenario("route", CyclePlan(w), Flags(c, p, m))
      : w \in PrefixWindows, c \in BOOLEAN, p \in BOOLEAN, m \in BOOLEAN }

Scenarios ==
    PrereqScenarios \cup LimitScenarios \cup NoOfferingScenarios \cup ZeroSemesterScenarios
    \cup CycleScenarios

(***************************************************************************)
(* One solve: the request handler (entry "route") or a direct call of the  *)
(* service (entry "service"), step by step                                 *)
(***************************************************************************)
(***************************************************************************)
(* The inputs of the modelled resolutions and parses                        *)
(***************************************************************************)
\* the largest number of parts of a generated requirement text
MaxParts == 3

\* the texts that the catalogs, alias tables, rules and tokens are made of
Txt ==
    [ t11 |-> <<"1", "1">>,
      t12 |-> <<"1", "2">>,
      t21 |-> <<"2", "1">>,
      tb1 |-> <<"b", "1">>,
      t1111 |-> <<"1", "1", "1", "1">>,
      t11111 |-> <<"1", "1", "1", "1", "1">>,
      t12121 |-> <<"1", "2", "1", "2", "1">>,
      ta |-> <<"a">>,
      tA |-> <<"A">>,
      tb |-> <<"b">>,
      tab |-> <<"a", " ", "b">>,
      tAb |-> <<"A", " ", "b">>,
      tu |-> <<"u">>,
      tx |-> <<"x">> ]

\* catalogs as load_catalog leaves them: codes and names stripped, not empty
CatPlain == <<CatalogCourse(Txt.t11, Txt.ta), CatalogCourse(Txt.t12, Txt.tab)>>
CatLetterCode == <<CatalogCourse(Txt.tb1, Txt.tA), CatalogCourse(Txt.t11, Txt.tb)>>
CatLong == <<CatalogCourse(Txt.t11111, Txt.tb), CatalogCourse(Txt.t12, Txt.t12121)>>
Catalogs == {<<>>, CatPlain, CatLetterCode, CatLong}

\* alias tables as load_aliases_csv leaves them: both columns stripped, not empty
AliasTables ==
    {<<>>, <<AliasRow(Txt.tu, Txt.t11), AliasRow(<<"'", "u", "'">>, Txt.t12)>>}
    \cup { <<AliasRow(a, c)>> :
             a \in {Txt.ta, Txt.t11, Txt.tu, Txt.t12121, Txt.tx},
             c \in {Txt.t11, Txt.t12, Txt.t21, Txt.tb1, Txt.ta, Txt.tA, Txt.tab, Txt.tb, Txt.tu, Txt.t11111, Txt.t12121} }

RuleSets ==
    { ExternalRules({}, {}), ExternalRules({Txt.tx}, {}), ExternalRules({}, {<<"1">>}),
      ExternalRules({Txt.tA}, {Txt.tu}) }

Tokens ==
    { Txt.t11, Txt.t12, Txt.t21, Txt.tb1, Txt.t1111, Txt.t11111, Txt.t12121, Txt.ta, Txt.tA, Txt.tb, Txt.tab, Txt.tAb, Txt.tu, Txt.tx,
      <<"a", " ", " ", "b">>, <<" ", "a", " ", "b", " ">>, <<"'", "a", "'">>,
      <<"\"", " ", "a">>, <<"a", "\t", "b">> }

Resolver(catalog, aliases, rules) ==
    [catalog |-> catalog, aliases |-> aliases, rules |-> rules]

\* the resolvers under which the generated requirement texts are parsed
ChainResolvers ==
    { Resolver(CatPlain, al, ExternalRules({Txt.tx}, {})) : al \in {<<>>, <<AliasRow(Txt.tu, Txt.t11)>>} }
    \cup { Resolver(CatPlain, <<>>, ExternalRules({}, {Txt.tx})) }

PartTokens == {Txt.t11, Txt.ta, Txt.tx, Txt.tu}

\* the texts of n parts joined by "/" or "+"
RECURSIVE ChainTexts(_)
ChainTexts(n) ==
    IF n = 1 THEN PartTokens
    ELSE { c \o <<sep>> \o part :
             c \in ChainTexts(n - 1), sep \in {"/", "+"}, part \in PartTokens }

SpecialTexts ==
    { <<>>, <<" ">>, <<" ", "\t">>, <<"/">>, <<"+">>, <<"a", "/">>, <<"1", "1", "/", "+">>,
      <<"a", " ", "/", " ", "x">>, <<"1", "1", " ", "+", " ", "a">>,
      <<"a", EnDash, "b">>, <<"a", "+", "+", "C">>, <<"a", " ", "+", " ", "+", "C">>,
      <<" ", "a", " ", " ", "b", " ">> }

ReqScenarios ==
    { [resolver |-> Resolver(cat, al, rules), text |-> tok] :
        cat \in Catalogs, al \in AliasTables, rules \in RuleSets, tok \in Tokens }
    \cup
    { [resolver |-> r, text |-> txt] :
        r \in ChainResolvers,
        txt \in SpecialTexts \cup UNION {ChainTexts(n) : n \in 1..MaxParts} }

(***************************************************************************)
(* services/solver.py: build_inputs_from_plan and the default offerings,   *)
(* over the rows of one plan.  db is the committed content of the tables:  *)
(*   codes          the catalog codes of the plan's PlanCourse rows, in    *)
(*                  code order; plan_course[i] is legacy_course_id of the  *)
(*                  i-th of them                                           *)
(*   course         the legacy Course rows [id, code]                      *)
(*   offering       the CourseOffering rows [course_id, semester_number]   *)
(*   solution       the PlanSolution rows [plan, req, status]              *)
(*   total_semesters, semesters_per_year   the PlanConstraint columns      *)
(*   meta_courses   academic_year of each code in the catalog metadata     *)
(*   fk             whether the connection enforces foreign keys           *)
(***************************************************************************)
\* The largest number of solve requests of one run.
MaxRequests == 2

\* list(range(a, b + 1))
RangeList(a, b) == IF b < a THEN <<>> ELSE [i \in 1..(b - a + 1) |-> a + i - 1]

\* int(y_raw) when y_raw is neither None nor blank, None when it is or int() raises
year_of(y_raw) == IF y_raw.kind = "int" THEN Some(y_raw.v) ELSE None

\* variant: the year's window, whatever the plan's length
_default_allowed_semesters_window_only(code, meta_courses, total_semesters, semesters_per_year) ==
    LET sp == IF semesters_per_year \in {None, Some(0)} THEN 2 ELSE semesters_per_year[1]
        y == year_of(Get(meta_courses, code, [kind |-> "none", v |-> 0]))
    IN  IF y = None \/ y[1] < 1 THEN RangeList(1, total_semesters)
        ELSE RangeList((y[1] - 1) * sp + 1, Min({total_semesters, y[1] * sp}))

_default_allowed_semesters_for_code(code, meta_courses, total_semesters, semesters_per_year) ==
    LET sp == IF semesters_per_year \in {None, Some(0)} THEN 2 ELSE semesters_per_year[1]
        y == year_of(Get(meta_courses, code, [kind |-> "none", v |-> 0]))
        start == (y[1] - 1) * sp + 1
        end == Min({total_semesters, y[1] * sp})
    IN  IF y = None \/ y[1] < 1 THEN RangeList(1, total_semesters)
        ELSE IF start > total_semesters THEN RangeList(1, total_semesters)
        ELSE RangeList(start, end)

\* the id of a row added to a table: one above the largest id in it
NewId(rows) == IF rows = {} THEN 1 ELSE Max({r.id : r \in rows}) + 1

\* pc.legacy_course of the i-th PlanCourse: the Course row with that id, if any
legacy_course(d, i) ==
    LET hit == {r \in d.course : d.plan_course[i] = Some(r.id)}
    IN  IF hit = {} THEN None ELSE Some(CHOOSE r \in hit : TRUE)

\* Course.query.filter_by(degree_plan_id=plan.id, code=code).first()
course_by_code(d, code) ==
    LET hit == {r \in d.course : r.code = code}
    IN  IF hit = {} THEN None ELSE Some(CHOOSE r \in hit : \A o \in hit : r.id <= o.id)

\* constraints.total_semesters if (constraints and constraints.total_semesters) else 6
total_semesters_of(d) ==
    IF d.total_semesters \in {None, Some(0)} THEN 6 ELSE d.total_semesters[1]

\* the loop that gives every PlanCourse a legacy Course row, from the i-th on
RECURSIVE ensure_legacy_courses(_, _)
ensure_legacy_courses(d, i) ==
    IF i > Len(d.codes) THEN d
    ELSE IF d.plan_course[i] # None THEN ensure_legacy_courses(d, i + 1)
    ELSE
        LET code == d.codes[i]
            found == course_by_code(d, code)
            id == IF found = None THEN NewId(d.course) ELSE found[1].id
            allowed == _default_allowed_semesters_for_code(
                           code, d.meta_courses, total_semesters_of(d), d.semesters_per_year)
            linked == [d EXCEPT !.plan_course[i] = Some(id)]
            after ==
                IF found # None THEN linked
                ELSE [linked EXCEPT
                        !.course = @ \cup {[id |-> id, code |-> code]},
                        !.offering = @ \cup {[course_id |-> id, semester_number |-> allowed[k]] :
                                                k \in DOMAIN allowed}]
        IN  CASE after.plan_course[i] # None -> ensure_legacy_courses(after, i + 1)

\* build_inputs_from_plan: the rows after its commit and the inputs it returns
build_inputs_from_plan(d0) ==
    LET d == ensure_legacy_courses(d0, 1)
        sems(i) ==
            IF legacy_course(d, i) = None THEN {}
            ELSE {o.semester_number :
                    o \in {o \in d.offering : o.course_id = legacy_course(d, i)[1].id}}
        allowed(i) ==
            IF sems(i) = {}
            THEN _default_allowed_semesters_for_code(
                     d.codes[i], d.meta_courses, total_semesters_of(d), d.semesters_per_year)
            ELSE Sorted(sems(i))
    IN  [db |-> d,
         courses |-> d.codes,
         allowed_semesters |->
            [c \in Range(d.codes) |-> allowed(CHOOSE i \in DOMAIN d.codes : d.codes[i] = c)]]

\* variant: the save deletes nothing
solutions_of_no_plan(rows, plan) == {}

\* PlanSolution.query.filter_by(plan_id=plan_id).delete(): the rows it deletes
solutions_of_plan(rows, plan) == {r \in rows : r.plan = plan}

\* SQLite admits one writing transaction at a time
lock_free(lock) == lock = None

\* the values of academic_year in the metadata
YearValues ==
    {[kind |-> k, v |-> 0] : k \in {"none", "blank", "text"}}
    \cup {[kind |-> "int", v |-> y] : y \in {-1, 0, 1, 2, MaxSem + 1}}

\* a plan: its settings, the metadata, its courses, and how far the legacy rows exist
PlanRows(fk, total, sp, y, codes, rows) ==
    [fk |-> fk,
     total_semesters |-> total,
     semesters_per_year |-> sp,
     meta_courses |-> [c \in {Txt.t11} |-> y],
     codes |-> codes,
     plan_course |-> [i \in DOMAIN codes |-> IF rows = "linked" THEN Some(i) ELSE None],
     course |-> IF rows = "none" THEN {} ELSE {[id |-> i, code |-> codes[i]] : i \in DOMAIN codes},
     offering |-> {},
     solution |-> {[plan |-> 2, req |-> 0, status |-> "Optimal"]}]

\* one course under every setting and year; up to two courses under one setting
PlanScenarios ==
    { PlanRows(TRUE, total, sp, y, <<Txt.t11>>, "none") :
        total \in {None} \cup {Some(n) : n \in 1..MaxSem},
        sp \in {None, Some(1), Some(2)},
        y \in YearValues }
    \cup
    { PlanRows(fk, Some(MaxSem), None, [kind |-> "int", v |-> 1], codes, rows) :
        fk \in BOOLEAN,
        codes \in {<<>>, <<Txt.t11>>, <<Txt.t11, Txt.t12>>},
        rows \in {"none", "unlinked", "linked"} }

VARIABLES entry, inputs, flags, pc, x, lpvars, model, warnings, values, status,
          schedule, precheck_hints, saved, error,
          req_resolver, req_text, req_pc, req_result, req_tree,
          db, lock, sess, built, hist

solvevars == <<entry, inputs, flags, pc, x, lpvars, model, warnings, values, status,
               schedule, precheck_hints, saved, error>>

reqvars == <<req_resolver, req_text, req_pc, req_result, req_tree>>

planvars == <<db, lock, sess, built, hist>>

vars == <<solvevars, reqvars, planvars>>


LpProblem == [constraints |-> <<>>, objective |-> None]

Init ==
    \E sc \in Scenarios :
        /\ entry = sc.entry
        /\ inputs = sc.inputs
        /\ flags = sc.flags
        /\ pc = IF sc.entry = "route" THEN "precheck" ELSE "build_vars"
        /\ x = EmptyDict
        /\ lpvars = <<>>
        /\ model = LpProblem
        /\ warnings = <<>>
        /\ values = EmptyDict
        /\ status = None
        /\ schedule = EmptyDict
        /\ precheck_hints = <<>>
        /\ saved = <<>>
        /\ error = None
        /\ req_resolver = Resolver(<<>>, <<>>, ExternalRules({}, {}))
        /\ req_text = <<>>
        /\ req_pc = "idle"
        /\ req_result = None
        /\ req_tree = None
        /\ db = [codes |-> <<>>]
        /\ lock = None
        /\ sess = <<>>
        /\ built = None
        /\ hist = [deleted |-> {}, requests |-> 0, saved |-> <<>>]

\* solve_plan (route): validate_inputs_before_solve returned hints
PrecheckRejected ==
    /\ pc = "precheck"
    /\ validate_inputs_before_solve(inputs) # <<>>
    /\ precheck_hints' = validate_inputs_before_solve(inputs)
    /\ saved' = _save_latest_solution(saved,
                    Snapshot("Not solved", DOMAIN inputs.max_credits_per_semester,
                             [s \in DOMAIN inputs.max_credits_per_semester |-> <<>>],
                             precheck_hints', <<>>, "precheck", flags))
    /\ pc' = "done"
    /\ UNCHANGED <<entry, inputs, flags, x, lpvars, model, warnings, values, status,
                   schedule, error>>
    /\ UNCHANGED <<reqvars, planvars>>

\* solve_plan (route): no hints, the service is called
PrecheckPassed ==
    /\ pc = "precheck"
    /\ validate_inputs_before_solve(inputs) = <<>>
    /\ pc' = "build_vars"
    /\ UNCHANGED <<entry, inputs, flags, x, lpvars, model, warnings, values, status,
                   schedule, precheck_hints, saved, error>>
    /\ UNCHANGED <<reqvars, planvars>>

\* build_model: the loop over courses meets a course without allowed semesters
BuildVarsRaises ==
    /\ pc = "build_vars"
    /\ no_offerings_raises(inputs.courses, inputs.allowed_semesters)
    /\ LET k == FirstWithoutSemesters(inputs.courses, inputs.allowed_semesters) - 1
       IN  /\ x' = decision_vars(inputs.courses, inputs.allowed_semesters, k)
           /\ lpvars' = decision_lpvars(inputs.courses, inputs.allowed_semesters, k)
    /\ error' = Some("ValueError")
    /\ pc' = "raised"
    /\ UNCHANGED <<entry, inputs, flags, model, warnings, values, status, schedule,
                   precheck_hints, saved>>
    /\ UNCHANGED <<reqvars, planvars>>

\* build_model: one binary variable per course and allowed semester
BuildVars ==
    /\ pc = "build_vars"
    /\ ~no_offerings_raises(inputs.courses, inputs.allowed_semesters)
    /\ x' = decision_vars(inputs.courses, inputs.allowed_semesters, Len(inputs.courses))
    /\ lpvars' = decision_lpvars(inputs.courses, inputs.allowed_semesters,
                                 Len(inputs.courses))
    /\ pc' = "placement"
    /\ UNCHANGED <<entry, inputs, flags, model, warnings, values, status, schedule,
                   precheck_hints, saved, error>>
    /\ UNCHANGED <<reqvars, planvars>>

\* build_model 1): each course exactly once
AddPlacement ==
    /\ pc = "placement"
    /\ model' = [model EXCEPT !.constraints = @ \o
                    [i \in 1..Len(inputs.courses) |->
                        one_sem(x, inputs.allowed_semesters, inputs.courses[i])]]
    /\ pc' = "credits"
    /\ UNCHANGED <<entry, inputs, flags, x, lpvars, warnings, values, status, schedule,
                   precheck_hints, saved, error>>
    /\ UNCHANGED <<reqvars, planvars>>

\* build_model 2): credit limits, if enabled
AddCreditLimits ==
    /\ pc = "credits"
    /\ LET semesters == all_semesters(inputs.allowed_semesters)
       IN  model' = IF flags.use_credit_limits
                    THEN [model EXCEPT !.constraints = @ \o
                            [i \in 1..Len(semesters) |->
                                max_credits_sem(inputs.courses, x, inputs.allowed_semesters,
                                    inputs.credits, inputs.max_credits_per_semester,
                                    semesters[i])]]
                    ELSE model
    /\ pc' = "prereqs"
    /\ UNCHANGED <<entry, inputs, flags, x, lpvars, warnings, values, status, schedule,
                   precheck_hints, saved, error>>
    /\ UNCHANGED <<reqvars, planvars>>

\* build_model 3): requirement trees, if enabled
AddPrereqs ==
    /\ pc = "prereqs"
    /\ LET acc0 == [lpvars |-> lpvars, cons |-> model.constraints,
                    warnings |-> <<>>, seen |-> {}]
           acc == IF flags.use_prereqs
                  THEN prereq_loop(1, inputs.courses, inputs.prereq_trees, x,
                                   inputs.allowed_semesters, acc0)
                  ELSE acc0
       IN  /\ lpvars' = acc.lpvars
           /\ model' = [model EXCEPT !.constraints = acc.cons]
           /\ warnings' = acc.warnings
    /\ pc' = "objective"
    /\ UNCHANGED <<entry, inputs, flags, x, values, status, schedule, precheck_hints,
                   saved, error>>
    /\ UNCHANGED <<reqvars, planvars>>

\* build_model 4): the objective, and the return
AddObjective ==
    /\ pc = "objective"
    /\ lpvars' = IF flags.minimize_last_semester
                 THEN Append(lpvars, LpVariable(LastSemVar, 1, None)) ELSE lpvars
    /\ model' = [model EXCEPT
                    !.constraints =
                        IF flags.minimize_last_semester
                        THEN @ \o [i \in 1..Len(inputs.courses) |->
                                    last_sem_after(x, inputs.allowed_semesters,
                                                   inputs.courses[i])]
                        ELSE @,
                    !.objective = Some(objective_expr(inputs.courses, x,
                                        inputs.allowed_semesters,
                                        flags.minimize_last_semester))]
    /\ pc' = "solve"
    /\ UNCHANGED <<entry, inputs, flags, x, warnings, values, status, schedule,
                   precheck_hints, saved, error>>
    /\ UNCHANGED <<reqvars, planvars>>

\* model.solve and LpStatus[model.status]: Optimal with one of the optimal
\* assignments, or Infeasible, and then the variables keep no value
Solve ==
    /\ pc = "solve"
    /\ LET F == Solutions(lpvars, model.constraints)
       IN  IF F = {}
           THEN /\ values' = [v \in {lpvars[i].id : i \in 1..Len(lpvars)} |-> None]
                /\ status' = Some("Infeasible")
           ELSE /\ \E a \in Optimal(F, model.objective[1]) :
                       values' = [v \in DOMAIN a |-> Some(a[v])]
                /\ status' = Some("Optimal")
    /\ pc' = "extract"
    /\ UNCHANGED <<entry, inputs, flags, x, lpvars, model, warnings, schedule,
                   precheck_hints, saved, error>>
    /\ UNCHANGED <<reqvars, planvars>>

\* solve_plan (service): the schedule of the returned payload
ExtractSchedule ==
    /\ pc = "extract"
    /\ schedule' = [c \in Range(inputs.courses) |->
                       _chosen_semester(x, values, inputs.allowed_semesters, c)]
    /\ pc' = IF entry = "route" THEN "save" ELSE "done"
    /\ UNCHANGED <<entry, inputs, flags, x, lpvars, model, warnings, values, status,
                   precheck_hints, saved, error>>
    /\ UNCHANGED <<reqvars, planvars>>

\* solve_plan (route): the snapshot of the solver's result
SaveSolution ==
    /\ pc = "save"
    /\ LET semesters == DOMAIN inputs.max_credits_per_semester
       IN  saved' = _save_latest_solution(saved,
                        Snapshot(status[1], semesters,
                            IF status[1] = "Optimal"
                            THEN placed_by_semester(semesters, schedule)
                            ELSE [s \in semesters |-> <<>>],
                            IF status[1] = "Optimal" THEN <<>>
                            ELSE not_optimal_hints(inputs, status[1]),
                            _dedupe_warnings(warnings), "solve_day4_ir", flags))
    /\ pc' = "done"
    /\ UNCHANGED <<entry, inputs, flags, x, lpvars, model, warnings, values, status,
                   schedule, precheck_hints, error>>
    /\ UNCHANGED <<reqvars, planvars>>

Next ==
    \/ PrecheckRejected
    \/ PrecheckPassed
    \/ BuildVarsRaises
    \/ BuildVars
    \/ AddPlacement
    \/ AddCreditLimits
    \/ AddPrereqs
    \/ AddObjective
    \/ Solve
    \/ ExtractSchedule
    \/ SaveSolution

Spec == Init /\ [][Next]_vars

(***************************************************************************)
(* The resolver and the parser applied to one text                          *)
(***************************************************************************)
ReqInit ==
    /\ \E sc \in ReqScenarios :
        /\ req_resolver = sc.resolver
        /\ req_text = sc.text
    /\ req_pc = "input"
    /\ req_result = None
    /\ req_tree = None
    /\ entry = "parse"
    /\ inputs = EmptyDict
    /\ flags = Flags(FALSE, FALSE, FALSE)
    /\ pc = "idle"
    /\ x = EmptyDict
    /\ lpvars = <<>>
    /\ model = LpProblem
    /\ warnings = <<>>
    /\ values = EmptyDict
    /\ status = None
    /\ schedule = EmptyDict
    /\ precheck_hints = <<>>
    /\ saved = <<>>
    /\ error = None
    /\ db = [codes |-> <<>>]
    /\ lock = None
    /\ sess = <<>>
    /\ built = None
    /\ hist = [deleted |-> {}, requests |-> 0, saved |-> <<>>]

\* resolve(token)
ResolveToken ==
    /\ req_pc = "input"
    /\ req_result' = Some(resolve(req_resolver.catalog, req_resolver.aliases,
                                  req_resolver.rules, req_text))
    /\ req_pc' = "resolved"
    /\ UNCHANGED <<req_resolver, req_text, req_tree>>
    /\ UNCHANGED <<solvevars, planvars>>

\* parse_req_text(text, resolve)
ParseReqText ==
    /\ req_pc = "input"
    /\ req_tree' = parse_req_text(req_text, req_resolver)
    /\ req_pc' = "parsed"
    /\ UNCHANGED <<req_resolver, req_text, req_result>>
    /\ UNCHANGED <<solvevars, planvars>>

ReqNext ==
    \/ ResolveToken
    \/ ParseReqText

ReqSpec == ReqInit /\ [][ReqNext]_vars

(***************************************************************************)
(* Solve requests of one plan, two at a time, next to the course routes    *)
(* (routes/solver_routes.py, routes/courses.py).  sess[p] is the request   *)
(* that process p serves: where it stands, its number, the status it will  *)
(* save and the rows its DELETE statement has removed in its transaction.  *)
(* hist records the codes delete_course was used on, the number of solve   *)
(* requests so far and the numbers of the requests that saved, in order.   *)
(***************************************************************************)
PlanInit ==
    /\ \E sc \in PlanScenarios : db = sc
    /\ lock = None
    /\ sess = [p \in 1..2 |-> [pc |-> "idle", req |-> 0, status |-> "", deleted |-> {}]]
    /\ built = None
    /\ hist = [deleted |-> {}, requests |-> 0, saved |-> <<>>]
    /\ entry = "plan"
    /\ inputs = EmptyDict
    /\ flags = Flags(FALSE, FALSE, FALSE)
    /\ pc = "idle"
    /\ x = EmptyDict
    /\ lpvars = <<>>
    /\ model = LpProblem
    /\ warnings = <<>>
    /\ values = EmptyDict
    /\ status = None
    /\ schedule = EmptyDict
    /\ precheck_hints = <<>>
    /\ saved = <<>>
    /\ error = None
    /\ req_resolver = Resolver(<<>>, <<>>, ExternalRules({}, {}))
    /\ req_text = <<>>
    /\ req_pc = "idle"
    /\ req_result = None
    /\ req_tree = None

\* solve_plan up to the save: build_inputs_from_plan, then the precheck and the solve,
\* of which only the status they end with is kept here
SolveBuildInputs(p) ==
    /\ sess[p].pc = "idle"
    /\ hist.requests < MaxRequests
    /\ db.codes # <<>>
    /\ build_inputs_from_plan(db).db # db => lock_free(lock)
    /\ LET out == build_inputs_from_plan(db)
       IN  /\ db' = out.db
           /\ built' = Some([courses |-> out.courses,
                             allowed_semesters |-> out.allowed_semesters])
    /\ \E st \in {"Optimal", "Infeasible", "Not solved"} :
        sess' = [sess EXCEPT ![p] = [pc |-> "save", req |-> hist.requests + 1,
                                     status |-> st, deleted |-> {}]]
    /\ hist' = [hist EXCEPT !.requests = @ + 1]
    /\ UNCHANGED lock
    /\ UNCHANGED <<solvevars, reqvars>>

\* solve_plan: build_inputs_from_plan raises "No courses defined", nothing is saved
SolveRaises(p) ==
    /\ sess[p].pc = "idle"
    /\ hist.requests < MaxRequests
    /\ db.codes = <<>>
    /\ hist' = [hist EXCEPT !.requests = @ + 1]
    /\ UNCHANGED <<db, lock, sess, built>>
    /\ UNCHANGED <<solvevars, reqvars>>

\* _save_latest_solution: the DELETE statement opens the writing transaction
SaveDelete(p) ==
    /\ sess[p].pc = "save"
    /\ lock_free(lock)
    /\ lock' = Some(p)
    /\ sess' = [sess EXCEPT ![p].pc = "commit",
                            ![p].deleted = solutions_of_plan(db.solution, 1)]
    /\ UNCHANGED <<db, built, hist>>
    /\ UNCHANGED <<solvevars, reqvars>>

\* _save_latest_solution: db.session.add(sol); db.session.commit()
SaveCommit(p) ==
    /\ sess[p].pc = "commit"
    /\ db' = [db EXCEPT !.solution =
                (@ \ sess[p].deleted)
                \cup {[plan |-> 1, req |-> sess[p].req, status |-> sess[p].status]}]
    /\ lock' = None
    /\ sess' = [sess EXCEPT ![p] = [pc |-> "idle", req |-> 0, status |-> "", deleted |-> {}]]
    /\ hist' = [hist EXCEPT !.saved = Append(@, sess[p].req)]
    /\ UNCHANGED built
    /\ UNCHANGED <<solvevars, reqvars>>

\* delete_course, once for a course
DeleteCourse ==
    /\ lock_free(lock)
    /\ \E r \in db.course :
        /\ r.code \notin hist.deleted
        /\ db' = [db EXCEPT
                    !.offering = {o \in @ : o.course_id # r.id},
                    !.course = @ \ {r},
                    !.plan_course = [i \in DOMAIN @ |->
                                        IF db.fk /\ @[i] = Some(r.id) THEN None ELSE @[i]]]
        /\ hist' = [hist EXCEPT !.deleted = @ \cup {r.code}]
    /\ UNCHANGED <<lock, sess, built>>
    /\ UNCHANGED <<solvevars, reqvars>>

\* edit_offerings
EditOfferings ==
    /\ lock_free(lock)
    /\ \E r \in db.course, selected_semesters \in {{}, {MaxSem}} :
        db' = [db EXCEPT !.offering =
                {o \in @ : o.course_id # r.id}
                \cup {[course_id |-> r.id, semester_number |-> s] : s \in selected_semesters}]
    /\ UNCHANGED <<lock, sess, built, hist>>
    /\ UNCHANGED <<solvevars, reqvars>>

PlanNext ==
    \/ \E p \in 1..2 : SolveBuildInputs(p)
    \/ \E p \in 1..2 : SolveRaises(p)
    \/ \E p \in 1..2 : SaveDelete(p)
    \/ \E p \in 1..2 : SaveCommit(p)
    \/ DeleteCourse
    \/ EditOfferings

PlanSpec == PlanInit /\ [][PlanNext]_vars

(***************************************************************************)
(* Properties.  ModelSolutions is the set of all assignments that satisfy  *)
(* the model build_model returned; it is looked at once the model is       *)
(* complete (pc = "solve").                                                *)
(***************************************************************************)
ModelSolutions == Solutions(lpvars, model.constraints)

ModelBuilt == pc = "solve"

Courses == Range(inputs.courses)

AllowedOf(c) == Range(inputs.allowed_semesters[c])

Scheduled == DOMAIN schedule # {}

IsOptimal == status = Some("Optimal")

\* the requirement tree of X is one internal leaf whose course is in the plan
SingleInternalLeaf(X) ==
    /\ X \in DOMAIN inputs.prereq_trees
    /\ inputs.prereq_trees[X].t = "leaf"
    /\ inputs.prereq_trees[X].code # None
    /\ inputs.prereq_trees[X].code[1] \in Courses

LeafCourse(X) == inputs.prereq_trees[X].code[1]

\* C1: with use_prereqs on, when the requirement of a plan course X is a single
\* internal leaf of a plan course C, every assignment that satisfies the model
\* places C in a semester strictly smaller than the semester of X (place(X,s) = 1
\* implies place(C,t) = 1 for an allowed t < s), and so does every Optimal schedule.
C1_LeafPrereqStrictlyBefore ==
    /\ (ModelBuilt /\ flags.use_prereqs) =>
         \A a \in ModelSolutions : \A X \in Courses :
            SingleInternalLeaf(X) =>
               \A s \in AllowedOf(X) :
                  a[x[X][s]] = 1 =>
                     \E t \in AllowedOf(LeafCourse(X)) :
                        t < s /\ a[x[LeafCourse(X)][t]] = 1
    /\ (IsOptimal /\ Scheduled /\ flags.use_prereqs) =>
         \A X \in Courses :
            SingleInternalLeaf(X) =>
               /\ schedule[X] # None
               /\ schedule[LeafCourse(X)] # None
               /\ schedule[LeafCourse(X)][1] < schedule[X][1]

\* an Optimal schedule in which a course with a single-leaf requirement could have
\* been offered earlier than the semester it got, next to its prerequisite
C1_Witness ==
    /\ IsOptimal /\ Scheduled /\ flags.use_prereqs
    /\ \E X \in Courses :
          /\ SingleInternalLeaf(X)
          /\ schedule[X] # None
          /\ schedule[LeafCourse(X)] # None
          /\ schedule[X][1] > 1
          /\ 1 \in AllowedOf(X)
          /\ schedule[LeafCourse(X)][1] < schedule[X][1]

\* C2: in every Optimal result each course has exactly one placement variable
\* at 1, its schedule entry is that semester (the first allowed semester whose
\* variable exceeds 0.5), a member of its allowed list, and never None.
C2_OptimalPlacesEveryCourseOnce ==
    (IsOptimal /\ Scheduled) =>
        \A c \in Courses :
            /\ schedule[c] # None
            /\ schedule[c][1] \in AllowedOf(c)
            /\ {s \in AllowedOf(c) : values[x[c][s]] = Some(1)} = {schedule[c][1]}
            /\ \A s \in AllowedOf(c) : values[x[c][s]] \in {Some(0), Some(1)}

\* an Optimal schedule that gives a course a semester other than the first of its list
C2_Witness ==
    /\ IsOptimal /\ Scheduled
    /\ \E c \in Courses :
          /\ schedule[c] # None
          /\ schedule[c][1] # inputs.allowed_semesters[c][1]

\* the credits of the courses the schedule places in semester s
Load(s) ==
    SumCredits(SelectSeq(inputs.courses, LAMBDA c : schedule[c] = Some(s)),
               inputs.credits)

CapOf(s) == Get(inputs.max_credits_per_semester, s, DefaultCap)

\* C3: with use_credit_limits on, in every Optimal schedule the credits placed in
\* a semester of the union of the allowed semesters do not exceed the cap of that
\* semester, which is 9999 for a semester without an entry.
C3_CreditCapRespected ==
    (IsOptimal /\ Scheduled /\ flags.use_credit_limits) =>
        \A s \in UNION {AllowedOf(c) : c \in Courses} : Load(s) <= CapOf(s)

\* an Optimal schedule under credit limits that fills a semester up to its cap and
\* uses a semester without an entry in max_credits_per_semester
C3_Witness ==
    /\ IsOptimal /\ Scheduled /\ flags.use_credit_limits
    /\ \E s \in DOMAIN inputs.max_credits_per_semester : Load(s) = CapOf(s)
    /\ \E s \in UNION {AllowedOf(c) : c \in Courses} :
          /\ s \notin DOMAIN inputs.max_credits_per_semester
          /\ Load(s) > 0

\* a tree of non-empty And/Or nodes over internal leaves of plan courses
RECURSIVE PureInternal(_)
PureInternal(node) ==
    IF node.t = "leaf" THEN node.code # None /\ node.code[1] \in Courses
    ELSE /\ node.items # <<>>
         /\ \A i \in 1..Len(node.items) : PureInternal(node.items[i])

\* the boolean value of a node at semester s under the placement in assignment a
RECURSIVE NodeValue(_, _, _)
NodeValue(node, a, s) ==
    IF node.t = "leaf"
    THEN \E t \in AllowedOf(node.code[1]) : t < s /\ a[XVar(node.code[1], t)] = 1
    ELSE IF node.t = "and"
    THEN \A i \in 1..Len(node.items) : NodeValue(node.items[i], a, s)
    ELSE \E i \in 1..Len(node.items) : NodeValue(node.items[i], a, s)

\* the satisfaction variable of the node at position n, and of every node below it,
\* has the boolean value of its node
RECURSIVE SatAgrees(_, _, _, _, _)
SatAgrees(node, n, c, s, a) ==
    /\ a[SatVar(c, s, n)] = (IF NodeValue(node, a, s) THEN 1 ELSE 0)
    /\ \A i \in 1..Len(node.items) : SatAgrees(node.items[i], Append(n, i), c, s, a)

\* C4: for a requirement tree of non-empty And/Or nodes over internal leaves of
\* plan courses, in every assignment that satisfies the model the satisfaction
\* variable of every node at every semester of the dependent course equals the
\* boolean value of the node: leaf = course placed strictly before, And = all
\* children, Or = some child.
C4_SatVariableEqualsNodeValue ==
    (ModelBuilt /\ flags.use_prereqs) =>
        \A a \in ModelSolutions : \A c \in DOMAIN inputs.prereq_trees :
            PureInternal(inputs.prereq_trees[c]) =>
                \A s \in AllowedOf(c) : SatAgrees(inputs.prereq_trees[c], <<>>, c, s, a)

\* a satisfying assignment for a tree with an And below an Or, where the And is
\* false, the Or is true at one semester and false at another
C4_Witness ==
    /\ ModelBuilt /\ flags.use_prereqs
    /\ cC \in DOMAIN inputs.prereq_trees
    /\ inputs.prereq_trees[cC] = ReqOr(<<LA, ReqAnd(<<LA, LB>>)>>)
    /\ \E a \in ModelSolutions : \E s1, s2 \in AllowedOf(cC) :
          /\ a[SatVar(cC, s1, <<>>)] = 1
          /\ a[SatVar(cC, s1, <<2>>)] = 0
          /\ a[SatVar(cC, s2, <<>>)] = 0

\* every node of a tree with its position
RECURSIVE NodesOf(_, _)
NodesOf(node, n) ==
    {<<n, node>>}
    \cup UNION {NodesOf(node.items[i], Append(n, i)) : i \in 1..Len(node.items)}

\* the courses of the plan that have a requirement tree
Dependents == Courses \cap DOMAIN inputs.prereq_trees

TreeNodes(c) == NodesOf(inputs.prereq_trees[c], <<>>)

CodelessLeaf(nd) ==
    nd.t = "leaf" /\ nd.code = None /\ nd.kind \in {"external", "unresolved"}

MissingLeaf(nd) ==
    nd.t = "leaf" /\ nd.code # None /\ nd.code[1] \notin DOMAIN inputs.allowed_semesters

\* the model holds the constraint z == 1 under the given tag for node n of c at s
ForcedTrue(tag, c, s, n) ==
    \E i \in 1..Len(model.constraints) :
        model.constraints[i] = forced_true(SatVar(c, s, n), tag, c, s, n)[1]

Warned(c, raw, kind) ==
    \E i \in 1..Len(warnings) : warnings[i] = SolverWarning(c, raw, kind)

\* C5: a leaf without a code (kind external or unresolved) never restricts the
\* schedule: at every semester of the dependent course the model forces its
\* satisfaction variable to 1, so it is 1 in every satisfying assignment; the
\* warnings hold {course: the dependent course, raw: the leaf's raw text, kind: the
\* leaf's kind} when the raw text is not empty after trimming, and no warning for
\* the leaf when it is.
C5_CodelessLeafSatisfiedAndWarned ==
    (ModelBuilt /\ flags.use_prereqs) =>
        LET F == ModelSolutions
        IN  \A c \in Dependents : \A p \in TreeNodes(c) :
            CodelessLeaf(p[2]) =>
                /\ \A s \in AllowedOf(c) :
                      /\ ForcedTrue("sat_leaf_ignored", c, s, p[1])
                      /\ \A a \in F : a[SatVar(c, s, p[1])] = 1
                /\ Strip(p[2].raw) # <<>> => Warned(c, p[2].raw, p[2].kind)
                /\ Strip(p[2].raw) = <<>> =>
                      ~\E i \in 1..Len(warnings) :
                          warnings[i].course = c /\ Strip(warnings[i].raw) = <<>>

\* the course with (A and (B or external)) is placed although B is not before it:
\* the external leaf made the Or true, and its warning is recorded
C5_Witness ==
    /\ ModelBuilt /\ flags.use_prereqs
    /\ cC \in DOMAIN inputs.prereq_trees
    /\ inputs.prereq_trees[cC] = ReqAnd(<<LA, ReqOr(<<LB, LE>>)>>)
    /\ Warned(cC, LE.raw, "external")
    /\ \E a \in ModelSolutions : \E s \in AllowedOf(cC) :
          /\ a[x[cC][s]] = 1
          /\ a[SatVar(cC, s, <<2, 1>>)] = 0
          /\ a[SatVar(cC, s, <<2, 2>>)] = 1

\* no constraint of the given tag exists for node n of c at s
NoConstraint(tag, c, s, n) ==
    \A i \in 1..Len(model.constraints) :
        LET nm == model.constraints[i].name
        IN  ~(nm.tag = tag /\ nm.c = c /\ nm.s = s /\ nm.n = n)

\* C6: an internal leaf whose code is no key of allowed_semesters is treated as
\* satisfied: at every semester of the dependent course its satisfaction variable
\* is forced to 1, no ordering constraint is added for it, and the warnings hold
\* {course: the dependent course, raw: the code, kind: missing_course}.
C6_MissingCourseSatisfiedAndWarned ==
    (ModelBuilt /\ flags.use_prereqs) =>
        LET F == ModelSolutions
        IN  \A c \in Dependents : \A p \in TreeNodes(c) :
            MissingLeaf(p[2]) =>
                /\ \A s \in AllowedOf(c) :
                      /\ ForcedTrue("sat_leaf_missing", c, s, p[1])
                      /\ NoConstraint("sat_leaf_le", c, s, p[1])
                      /\ NoConstraint("sat_leaf_ge", c, s, p[1])
                      /\ \A a \in F : a[SatVar(c, s, p[1])] = 1
                /\ Warned(c, p[2].code[1], "missing_course")

\* the course with (external and M and (M or B)), M outside the plan, is placed
\* although B is not before it
C6_Witness ==
    /\ ModelBuilt /\ flags.use_prereqs
    /\ cC \in DOMAIN inputs.prereq_trees
    /\ inputs.prereq_trees[cC] = ReqAnd(<<LE, LM, ReqOr(<<LM, LB>>)>>)
    /\ Warned(cC, cM, "missing_course")
    /\ \E a \in ModelSolutions : \E s \in AllowedOf(cC) :
          /\ a[x[cC][s]] = 1
          /\ a[SatVar(cC, s, <<3, 2>>)] = 0
          /\ a[SatVar(cC, s, <<3, 1>>)] = 1

NoDuplicates(ws) == \A i, j \in 1..Len(ws) : i # j => ws[i] # ws[j]

\* a leaf that gets a warning: the (raw, kind) of the entry
WarnedAs(nd) ==
    IF CodelessLeaf(nd) THEN <<nd.raw, nd.kind>> ELSE <<nd.code[1], "missing_course">>

\* C7: the warnings list of one build_model call holds no two entries with the
\* same (course, kind, raw); a token that occurs in several leaves of one course's
\* tree, evaluated at every semester of the course, has exactly one entry for that
\* course.  The saved snapshot's warnings have no duplicate either.
C7_WarningsAreUnique ==
    /\ NoDuplicates(warnings)
    /\ saved # <<>> => NoDuplicates(saved[1].warnings)
    /\ (ModelBuilt /\ flags.use_prereqs) =>
          \A c \in Dependents : \A p \in TreeNodes(c) :
             ((CodelessLeaf(p[2]) /\ Strip(p[2].raw) # <<>>) \/ MissingLeaf(p[2])) =>
                 Cardinality({i \in 1..Len(warnings) :
                     warnings[i] = SolverWarning(c, WarnedAs(p[2])[1], WarnedAs(p[2])[2])}) = 1

\* the external token occurs in two leaves of the tree of a course with several
\* semesters: one entry
C7_Witness ==
    /\ ModelBuilt /\ flags.use_prereqs
    /\ cC \in DOMAIN inputs.prereq_trees
    /\ inputs.prereq_trees[cC] = ReqAnd(<<LE, ReqOr(<<LE, LA>>)>>)
    /\ Len(inputs.allowed_semesters[cC]) > 1
    /\ warnings = <<SolverWarning(cC, LE.raw, "external")>>

\* every placement of the courses into semesters of their allowed lists
Placements ==
    {f \in [Courses -> UNION {AllowedOf(c) : c \in Courses}] :
        \A c \in Courses : f[c] \in AllowedOf(c)}

\* the requirement holds for a course placed at s: an internal plan leaf is placed
\* strictly before s; a leaf without a code or of a course outside the plan holds
RECURSIVE TreeHolds(_, _, _)
TreeHolds(node, f, s) ==
    IF node.t = "leaf"
    THEN \/ node.code = None
         \/ node.code[1] \notin DOMAIN inputs.allowed_semesters
         \/ f[node.code[1]] < s
    ELSE IF node.t = "and"
    THEN \A i \in 1..Len(node.items) : TreeHolds(node.items[i], f, s)
    ELSE node.items = <<>> \/ \E i \in 1..Len(node.items) : TreeHolds(node.items[i], f, s)

LoadOf(f, s) ==
    SumCredits(SelectSeq(inputs.courses, LAMBDA c : f[c] = s), inputs.credits)

\* the placement satisfies the active credit and prerequisite constraints
Admissible(f) ==
    /\ flags.use_credit_limits => \A s \in Range(f) : LoadOf(f, s) <= CapOf(s)
    /\ flags.use_prereqs =>
          \A c \in Dependents : TreeHolds(inputs.prereq_trees[c], f, f[c])

LastOf(f) == Max(Range(f))

EarliestFinish == Min({LastOf(f) : f \in {g \in Placements : Admissible(g)}})

FinishesAsEarlyAsFeasible ==
    /\ \A c \in Courses : schedule[c] # None
    /\ Max({schedule[c][1] : c \in Courses}) = EarliestFinish

\* C8: with minimize_last_semester on and status Optimal, the largest semester
\* assigned to a course equals the smallest largest-semester of all placements that
\* satisfy the active placement, credit and prerequisite constraints.
C8_FinishesAsEarlyAsFeasible ==
    (IsOptimal /\ Scheduled /\ flags.minimize_last_semester) =>
        FinishesAsEarlyAsFeasible

\* C8, for plans whose offerings are all at semester 1 or later (last_sem has the
\* lower bound 1): the same statement
C8_FinishesAsEarlyAsFeasibleFromSemesterOne ==
    (/\ IsOptimal /\ Scheduled /\ flags.minimize_last_semester
     /\ \A c \in Courses : \A s \in AllowedOf(c) : s >= 1) =>
        FinishesAsEarlyAsFeasible

\* an Optimal result under minimize_last_semester for offerings that include
\* semester 0: the schedule ends in semester 1 although every course fits semester 0
C8_Witness ==
    /\ IsOptimal /\ Scheduled /\ flags.minimize_last_semester
    /\ \A c \in Courses : schedule[c] # None /\ 0 \in AllowedOf(c)
    /\ Max({schedule[c][1] : c \in Courses}) = 1
    /\ EarliestFinish = 0

\* an Optimal schedule that ends after semester 1 and before the last semester some
\* course is offered in
C8_EarlyFinishReached ==
    /\ IsOptimal /\ Scheduled /\ flags.minimize_last_semester
    /\ \A c \in Courses : schedule[c] # None /\ \A s \in AllowedOf(c) : s >= 1
    /\ Max({schedule[c][1] : c \in Courses}) > 1
    /\ \E c \in Courses : Max(AllowedOf(c)) > Max({schedule[d][1] : d \in Courses})

\* some course of the plan has an empty list of allowed semesters, or none
WithoutSemesters ==
    \E c \in Courses :
        c \notin DOMAIN inputs.allowed_semesters \/ inputs.allowed_semesters[c] = <<>>

\* a solve that stopped at the precheck never reaches build_model
InRoute == pc = "precheck" \/ (pc = "done" /\ precheck_hints # <<>>)

\* C9: when a course has an empty or missing allowed-semester list, a call of
\* build_model ends with a ValueError before any placement, credit or prerequisite
\* constraint and before the objective: the model holds no constraint, nothing is
\* solved; and build_model raises in no other case.
C9_BuildModelFailsFast ==
    /\ (WithoutSemesters /\ ~InRoute) =>
          \/ pc = "build_vars"
          \/ /\ pc = "raised"
             /\ error = Some("ValueError")
             /\ model = LpProblem
             /\ warnings = <<>>
             /\ values = EmptyDict
             /\ status = None
    /\ error # None => WithoutSemesters

\* build_model raised at a later course, after it created the variables of the
\* courses before it
C9_Witness ==
    /\ pc = "raised"
    /\ error = Some("ValueError")
    /\ x # EmptyDict
    /\ model.constraints = <<>>

\* C10: in a solve request for which validate_inputs_before_solve returns a hint,
\* the model is never built and the solver never runs; when the request is done the
\* saved snapshot has the status "Not solved", the precheck hints, no placed course
\* and no warning; no exception escapes a request.  When the hint list is empty,
\* every course has a non-empty list of allowed semesters.
C10_PrecheckStopsTheSolve ==
    entry = "route" =>
        /\ error = None
        /\ validate_inputs_before_solve(inputs) # <<>> =>
              /\ pc \in {"precheck", "done"}
              /\ x = EmptyDict /\ lpvars = <<>> /\ model = LpProblem
              /\ values = EmptyDict /\ status = None /\ schedule = EmptyDict
              /\ pc = "done" =>
                    /\ Len(saved) = 1
                    /\ saved[1].status = "Not solved"
                    /\ saved[1].infeasible_hints = validate_inputs_before_solve(inputs)
                    /\ \A s \in DOMAIN saved[1].courses_by_semester :
                          saved[1].courses_by_semester[s] = <<>>
                    /\ saved[1].warnings = <<>>
                    /\ saved[1].meta.phase = "precheck"
        /\ validate_inputs_before_solve(inputs) = <<>> => ~WithoutSemesters

\* a request whose only hint is a course without allowed semesters ended with the
\* "Not solved" snapshot
C10_Witness ==
    /\ entry = "route" /\ pc = "done"
    /\ Len(precheck_hints) = 1
    /\ precheck_hints[1].kind = "no_allowed_semesters"
    /\ Len(saved) = 1
    /\ saved[1].status = "Not solved"

\* the solved plan is {A requires B, B requires A}, both leaves internal
IsCyclePlan ==
    /\ inputs.courses = <<cA, cB>>
    /\ inputs.prereq_trees = (cA :> LB) @@ (cB :> LA)

\* C11: a request for the plan {A requires B, B requires A} with use_prereqs on
\* ends with a non-Optimal status (Infeasible), and the hints saved for it include
\* one that reports the prerequisite cycle.
C11_CycleIsInfeasibleWithCycleHint ==
    (entry = "route" /\ pc = "done" /\ IsCyclePlan /\ flags.use_prereqs) =>
        /\ status = Some("Infeasible")
        /\ saved[1].status = "Infeasible"
        /\ \E i \in 1..Len(saved[1].infeasible_hints) :
              saved[1].infeasible_hints[i].kind = "prereq_cycle"

\* C11, what the request does: the status is Infeasible, no course is placed, and
\* the saved hints are the one general hint of an infeasible solve
C11_CycleIsInfeasibleWithGeneralHint ==
    (entry = "route" /\ pc = "done" /\ IsCyclePlan /\ flags.use_prereqs) =>
        /\ status = Some("Infeasible")
        /\ saved[1].status = "Infeasible"
        /\ \A s \in DOMAIN saved[1].courses_by_semester :
              saved[1].courses_by_semester[s] = <<>>
        /\ saved[1].infeasible_hints = <<Hint("infeasible", <<>>, <<>>, "")>>

\* the request for the cycle plan, offered in several semesters, is done
C11_Witness ==
    /\ entry = "route" /\ pc = "done" /\ IsCyclePlan /\ flags.use_prereqs
    /\ Len(inputs.allowed_semesters[cA]) > 1
    /\ saved[1].status = "Infeasible"
    /\ saved[1].infeasible_hints = <<Hint("infeasible", <<>>, <<>>, "")>>

(***************************************************************************)
(* Claims about the resolver                                                *)
(***************************************************************************)
IsResolved == req_pc = "resolved"

Result == req_result[1]

TokenKey == normalize_name_key(req_text)

AliasTarget == alias_map_norm_get(req_resolver.aliases, TokenKey)

Aliased == AliasTarget # None

\* the codes of the catalog courses that a canonical target names, by code or by name
CoursesNamed(target) ==
    { req_resolver.catalog[i].code : i \in
        { j \in 1..Len(req_resolver.catalog) :
            \/ req_resolver.catalog[j].code = normalize_name_key(target)
            \/ normalize_name_key(req_resolver.catalog[j].name) = normalize_name_key(target) } }

\* what steps 1 to 4 alone would make of the token
Unaliased == resolve_unaliased(req_resolver.catalog, req_resolver.rules, req_text, TokenKey)

\* C12: an aliased token is classified through its alias's canonical target
\* alone: internal, with the course's code, if the target names a catalog
\* course, and otherwise unresolved with no code; the result keeps the token.
C12_AliasTargetDecides ==
    (IsResolved /\ Aliased) =>
        /\ Result.raw = req_text
        /\ IF CoursesNamed(AliasTarget[1]) # {}
           THEN Result.kind = "internal" /\ Result.code # None
                /\ Result.code[1] \in CoursesNamed(AliasTarget[1])
           ELSE Result.kind = "unresolved" /\ Result.code = None

\* C12, the part the code keeps: the alias step answers for every aliased
\* token; the answer is internal with a course the target names, or unresolved.
C12_AliasStepAnswers ==
    (IsResolved /\ Aliased) =>
        /\ Result.raw = req_text
        /\ \/ Result.kind = "unresolved" /\ Result.code = None
           \/ Result.kind = "internal" /\ Result.code # None
              /\ Result.code[1] \in CoursesNamed(AliasTarget[1])

\* an aliased token that is itself a catalog code and whose target is a
\* catalog code with a letter in it: the result is unresolved
C12_Witness ==
    /\ IsResolved
    /\ req_resolver.catalog = CatLetterCode
    /\ req_resolver.aliases = <<AliasRow(Txt.t11, Txt.tb1)>>
    /\ req_text = Txt.t11
    /\ Unaliased.kind = "internal"
    /\ Result = Resolved(None, Txt.t11, "unresolved")

\* C13: a token whose alias has a catalog course code as its canonical target
\* resolves to internal with that code, whatever characters the code has.
C13_AliasToCatalogCodeIsInternal ==
    (IsResolved /\ Aliased /\ AliasTarget[1] \in by_code(req_resolver.catalog)) =>
        Result = Resolved(AliasTarget, req_text, "internal")

\* C13 for the codes the code recognises: the same, for a target of digits only.
C13_AliasToDigitCodeIsInternal ==
    (IsResolved /\ Aliased /\ AliasTarget[1] \in by_code(req_resolver.catalog)
        /\ isdigit(AliasTarget[1])) =>
        Result = Resolved(AliasTarget, req_text, "internal")

\* the alias of "u" is the catalog code "b1": the result is unresolved
C13_Witness ==
    /\ IsResolved
    /\ req_resolver.catalog = CatLetterCode
    /\ req_resolver.aliases = <<AliasRow(Txt.tu, Txt.tb1)>>
    /\ req_text = Txt.tu
    /\ Result = Resolved(None, Txt.tu, "unresolved")

\* an alias whose target is a catalog code of digits gives that code
C13_DigitCodeReached ==
    /\ IsResolved
    /\ req_resolver.catalog = CatLetterCode
    /\ req_resolver.aliases = <<AliasRow(Txt.tu, Txt.t11)>>
    /\ req_text = Txt.tu
    /\ Result = Resolved(Some(Txt.t11), Txt.tu, "internal")

\* C14: a token without an alias that is all digits, at least MinCodeDigits
\* long and not a catalog code resolves to unresolved with no code, also when
\* a catalog course has it as its name or an external rule matches it.
C14_LongDigitTokenIsUnresolved ==
    (IsResolved /\ ~Aliased /\ isdigit(req_text) /\ Len(req_text) >= MinCodeDigits
        /\ req_text \notin by_code(req_resolver.catalog)) =>
        Result = Resolved(None, req_text, "unresolved")

\* "12121" is the name of a catalog course and matches an external pattern
C14_Witness ==
    /\ IsResolved
    /\ ~Aliased
    /\ req_text = Txt.t12121
    /\ by_name_get(req_resolver.catalog, Txt.t12121) = Some(Txt.t12)
    /\ is_external_token(Txt.t12121, req_resolver.rules)
    /\ Result = Resolved(None, Txt.t12121, "unresolved")

\* letter case folded
Lower(s) == [i \in 1..Len(s) |-> IF s[i] = "A" THEN "a" ELSE s[i]]

\* equal up to letter case, surrounding whitespace, runs of whitespace and quotes
SameName(s, name) == Lower(normalize_name_key(s)) = Lower(normalize_name_key(name))

\* the codes of the catalog courses whose name the token equals up to SameName
CoursesCalled(s) ==
    { req_resolver.catalog[i].code : i \in
        { j \in 1..Len(req_resolver.catalog) : SameName(s, req_resolver.catalog[j].name) } }

\* the token is not a catalog code and not a long all-digit key
NameStepReached ==
    /\ ~Aliased
    /\ TokenKey \notin by_code(req_resolver.catalog)
    /\ ~(isdigit(TokenKey) /\ Len(TokenKey) >= MinCodeDigits)

\* C15: a token without an alias that is not a code and equals a catalog
\* course name up to letter case, whitespace and quote characters resolves to
\* internal with that course's code.
C15_NameMatchIgnoresCaseAndSpace ==
    (IsResolved /\ NameStepReached /\ CoursesCalled(req_text) # {}) =>
        /\ Result.kind = "internal"
        /\ Result.code # None
        /\ Result.code[1] \in CoursesCalled(req_text)
        /\ Result.raw = req_text

\* C15 without the letter case: the same for a token whose key, as
\* normalize_name_key computes it, is the key of a catalog course name.
C15_NameMatchIgnoresSpaceAndQuotes ==
    (IsResolved /\ NameStepReached
        /\ by_name_get(req_resolver.catalog, TokenKey) # None) =>
        Result = Resolved(by_name_get(req_resolver.catalog, TokenKey), req_text, "internal")

\* the token "a" against the catalog course named "A": not internal
C15_Witness ==
    /\ IsResolved
    /\ NameStepReached
    /\ req_resolver.catalog = CatLetterCode
    /\ req_text = Txt.ta
    /\ CoursesCalled(req_text) = {Txt.tb1}
    /\ Result.kind # "internal"

\* the token " a b " against the catalog course named "a b": internal
C15_SpacedNameReached ==
    /\ IsResolved
    /\ NameStepReached
    /\ req_text = <<" ", "a", " ", "b", " ">>
    /\ Result = Resolved(Some(Txt.t12), req_text, "internal")

(***************************************************************************)
(* Claims about the parser                                                  *)
(***************************************************************************)
IsParsed == req_pc = "parsed"

\* the leaves of a parsed tree
RECURSIVE LeavesOf(_)
LeavesOf(node) ==
    IF node.t = "leaf" THEN {node}
    ELSE UNION {LeavesOf(node.items[i]) : i \in 1..Len(node.items)}

ParsedLeaves == IF req_tree = None THEN {} ELSE LeavesOf(req_tree[1])

KindMatchesCode(r) ==
    /\ r.kind \in {"internal", "external", "unresolved"}
    /\ r.kind = "internal" <=> r.code # None

\* C16: every result of resolve and every leaf that parse_req_text builds
\* has kind internal exactly when it has a code.
C16_InternalIffCode ==
    /\ IsResolved => KindMatchesCode(Result)
    /\ IsParsed => \A leaf \in ParsedLeaves : KindMatchesCode(leaf)

\* a parsed text whose tree has an internal leaf with a code and an external
\* leaf without one
C16_Witness ==
    /\ IsParsed
    /\ \E a \in ParsedLeaves : a.kind = "internal" /\ a.code = Some(Txt.t11)
    /\ \E b \in ParsedLeaves : b.kind = "external" /\ b.code = None

\* an alias to digits that are no catalog code: unresolved, without a code
C16_MissingAliasTargetReached ==
    /\ IsResolved
    /\ Aliased
    /\ isdigit(AliasTarget[1])
    /\ Result.kind = "unresolved" /\ Result.code = None

\* C17: parse_req_text returns None for the empty text and for every text of
\* whitespace only.
C17_BlankTextYieldsNone ==
    (IsParsed /\ Strip(req_text) = <<>>) => req_tree = None

\* C17 for the empty text alone.
C17_EmptyTextYieldsNone ==
    (IsParsed /\ req_text = <<>>) => req_tree = None

\* the text of one space is parsed into an unresolved leaf with an empty raw
C17_Witness ==
    /\ IsParsed
    /\ req_text = <<" ">>
    /\ req_tree = Some(ReqLeaf(None, <<>>, "unresolved"))

\* the empty text is parsed into None
C17_EmptyTextReached ==
    /\ IsParsed
    /\ req_text = <<>>
    /\ req_tree = None

\* the input trimmed, its en-dashes turned into hyphens, its runs of whitespace
\* collapsed to one space
RECURSIVE OneSpaced(_)
OneSpaced(s) ==
    IF s = <<>> THEN <<>>
    ELSE IF IsSpace(Head(s))
         THEN IF Len(s) > 1 /\ IsSpace(s[2]) THEN OneSpaced(Tail(s))
              ELSE <<" ">> \o OneSpaced(Tail(s))
    ELSE <<(IF Head(s) = EnDash THEN "-" ELSE Head(s))>> \o OneSpaced(Tail(s))

NormalizedInput == OneSpaced(Strip(req_text))

HasSeparator(s) == "/" \in Range(s) \/ "+" \in Range(s)

\* C18: a non-empty text with neither "/" nor "+" is parsed into a single
\* leaf whose raw is the normalized input.
C18_PlainTextIsOneLeaf ==
    (IsParsed /\ req_text # <<>> /\ ~HasSeparator(req_text)) =>
        /\ req_tree # None
        /\ req_tree[1].t = "leaf"
        /\ req_tree[1].raw = NormalizedInput

\* "a", en-dash, "b" is parsed into one leaf with raw "a-b"
C18_Witness ==
    /\ IsParsed
    /\ req_text = <<"a", EnDash, "b">>
    /\ req_tree = Some(ReqLeaf(None, <<"a", "-", "b">>, "unresolved"))

\* " a  b " is parsed into the leaf of the course named "a b"
C18_SpacedTextReached ==
    /\ IsParsed
    /\ req_text = <<" ", "a", " ", " ", "b", " ">>
    /\ req_tree = Some(ReqLeaf(Some(Txt.t12), Txt.tab, "internal"))

\* the leaf that a part of a text stands for
LeafOf(part) ==
    LET r == resolve(req_resolver.catalog, req_resolver.aliases, req_resolver.rules,
                     OneSpaced(Strip(part)))
    IN  ReqLeaf(r.code, r.raw, r.kind)

\* the trimmed pieces of the text between the occurrences of sep
PartsOf(sep) == LET pieces == Split(req_text, sep)
                IN  [i \in 1..Len(pieces) |-> Strip(pieces[i])]

\* a text of two or more non-empty parts joined by sep, without the other separator
IsChain(sep, other) ==
    /\ other \notin Range(req_text)
    /\ Len(PartsOf(sep)) >= 2
    /\ \A i \in 1..Len(PartsOf(sep)) : PartsOf(sep)[i] # <<>>

PartLeaves(sep) == [i \in 1..Len(PartsOf(sep)) |-> LeafOf(PartsOf(sep)[i])]

\* a sequence without its repetitions, in the order of the first occurrences
RECURSIVE FirstOccurrences(_)
FirstOccurrences(s) ==
    IF s = <<>> THEN <<>>
    ELSE LET front == FirstOccurrences(SubSeq(s, 1, Len(s) - 1))
         IN  IF s[Len(s)] \in Range(front) THEN front ELSE Append(front, s[Len(s)])

\* no And/Or of the tree has two equal children
RECURSIVE NoEqualChildren(_)
NoEqualChildren(node) ==
    \/ node.t = "leaf"
    \/ /\ \A i, j \in 1..Len(node.items) : node.items[i] = node.items[j] => i = j
       /\ \A i \in 1..Len(node.items) : NoEqualChildren(node.items[i])

\* C19: a "+"-chain whose parts all resolve to internal courses is parsed
\* into the And of the parts' leaves in textual order, repeated leaves
\* collapsed to the first; no And/Or of any parsed tree has two equal children.
C19_PlusChainIsAndOfLeaves ==
    IsParsed =>
        /\ (IsChain("+", "/") /\ \A i \in 1..Len(PartsOf("+")) :
                                    PartLeaves("+")[i].kind = "internal")
              => req_tree = Some(ReqAnd(FirstOccurrences(PartLeaves("+"))))
        /\ req_tree # None => NoEqualChildren(req_tree[1])

\* "11+a+11": the And of the leaves of "11" and "a", the second "11" collapsed
C19_Witness ==
    /\ IsParsed
    /\ req_text = Txt.t11 \o <<"+">> \o Txt.ta \o <<"+">> \o Txt.t11
    /\ req_tree = Some(ReqAnd(<<ReqLeaf(Some(Txt.t11), Txt.t11, "internal"),
                                ReqLeaf(Some(Txt.t11), Txt.ta, "internal")>>))

\* a text "A/B": two non-empty parts around one "/", no "+"
IsSlashPair == IsChain("/", "+") /\ Len(PartsOf("/")) = 2

\* C20 as stated: every text "A/B" is parsed into Or([Leaf(A), Leaf(B)]).
C20_SlashPairIsOrOfLeaves ==
    (IsParsed /\ IsSlashPair) => req_tree = Some(ReqOr(PartLeaves("/")))

\* C20 as amended: a text "A/B" is parsed into the Or of the leaves of A and
\* B, equal leaves collapsed to one, when neither leaf is unresolved; when one
\* is, the split is not used and the result is one leaf for the whole text.
C20_SlashPairOfValidPartsIsOr ==
    (IsParsed /\ IsSlashPair) =>
        IF \A i \in 1..2 : PartLeaves("/")[i].kind # "unresolved"
        THEN req_tree = Some(ReqOr(FirstOccurrences(PartLeaves("/"))))
        ELSE /\ req_tree # None
             /\ req_tree[1].t = "leaf"
             /\ req_tree[1].raw = NormalizedInput

\* "11/x": the Or of an internal and an external leaf
C20_Witness ==
    /\ IsParsed
    /\ req_text = Txt.t11 \o <<"/">> \o Txt.tx
    /\ req_tree = Some(ReqOr(<<ReqLeaf(Some(Txt.t11), Txt.t11, "internal"),
                               ReqLeaf(None, Txt.tx, "external")>>))

\* "11/u" with "u" unresolved: one unresolved leaf for the whole text
C20_FallbackReached ==
    /\ IsParsed
    /\ req_text = Txt.t11 \o <<"/">> \o Txt.tu
    /\ req_tree = Some(ReqLeaf(None, req_text, "unresolved"))

\* the text as parse_req_text splits it
ParsedText == repair_cpp(normalize_text(req_text))

\* the trees of the parts that the split of the text at sep gives
SplitItems(sep) ==
    LET parts == split_top(ParsedText, sep)
    IN  [i \in 1..Len(parts) |-> parse_req_text(parts[i], req_resolver)[1]]

HasUnresolved(node) == \E leaf \in LeavesOf(node) : leaf.kind = "unresolved"

\* the split at sep has a branch with an unresolved leaf
SplitFails(sep) ==
    \E i \in 1..Len(SplitItems(sep)) : HasUnresolved(SplitItems(sep)[i])

\* the splits that parse_req_text tries: "/" if the text has one, "+" if the
\* text has one and the "/" split, if tried, failed
OrTried == "/" \in Range(ParsedText)

AndTried == "+" \in Range(ParsedText) /\ (OrTried => SplitFails("/"))

IsFullLeaf ==
    /\ req_tree # None
    /\ req_tree[1].t = "leaf"
    /\ req_tree[1].raw = ParsedText

\* C21 as stated: when a split that is tried has a branch with an unresolved
\* leaf, the result is a single leaf covering the full normalized text.
C21_FailedSplitFallsBackToLeaf ==
    (IsParsed /\ req_text # <<>>
        /\ ((OrTried /\ SplitFails("/")) \/ (AndTried /\ SplitFails("+")))) => IsFullLeaf

\* C21 as amended: a tried split with an unresolved leaf in a branch is not
\* used; the result is the And of the "+" split when the failed split is the
\* "/" one and the "+" split is tried and has no such branch, and otherwise a
\* single leaf covering the full normalized text.
C21_FailedSplitIsNotUsed ==
    (IsParsed /\ req_text # <<>>) =>
        /\ (OrTried /\ SplitFails("/")) => req_tree[1].t # "or"
        /\ (AndTried /\ SplitFails("+")) => IsFullLeaf
        /\ (OrTried /\ SplitFails("/") /\ ~AndTried) => IsFullLeaf
        /\ (OrTried /\ SplitFails("/") /\ AndTried /\ ~SplitFails("+")) =>
              req_tree = Some(ReqAnd(FirstOccurrences(SplitItems("+"))))

\* "11+a/u" with "u" unresolved: both splits fail, one leaf for the whole text
C21_Witness ==
    /\ IsParsed
    /\ req_text = Txt.t11 \o <<"+">> \o Txt.ta \o <<"/">> \o Txt.tu
    /\ SplitFails("/")
    /\ SplitFails("+")
    /\ req_tree = Some(ReqLeaf(None, req_text, "unresolved"))

\* "11+u/x" under the external pattern "x": the "/" split fails on "11+u",
\* the "+" split gives the And of "11" and the external leaf "u/x"
C21_AlternateSplitReached ==
    /\ IsParsed
    /\ req_text = Txt.t11 \o <<"+">> \o Txt.tu \o <<"/">> \o Txt.tx
    /\ SplitFails("/")
    /\ req_tree = Some(ReqAnd(<<ReqLeaf(Some(Txt.t11), Txt.t11, "internal"),
                                ReqLeaf(None, Txt.tu \o <<"/">> \o Txt.tx, "external")>>))

\* a text "A/B+C" of three tokens: its pieces A, B and C
SlashPlusParts ==
    LET halves == PartsOf("/")
        tail == IF Len(halves) = 2 THEN Split(halves[2], "+") ELSE <<>>
    IN  IF Len(halves) = 2 /\ Len(tail) = 2 /\ "+" \notin Range(halves[1])
        THEN <<halves[1], Strip(tail[1]), Strip(tail[2])>>
        ELSE <<>>

IsSlashPlus ==
    /\ SlashPlusParts # <<>>
    /\ \A i \in 1..3 : /\ SlashPlusParts[i] # <<>>
                       /\ LeafOf(SlashPlusParts[i]).kind = "internal"

C25_UnresolvedLeafOnlyAtRoot ==
    (IsParsed /\ req_tree # None /\ req_tree[1].t # "leaf") => ~HasUnresolved(req_tree[1])

\* "x+11/x": an Or over the And of an external and an internal leaf and an
\* external leaf
C25_Witness ==
    /\ IsParsed
    /\ req_text = Txt.tx \o <<"+">> \o Txt.t11 \o <<"/">> \o Txt.tx
    /\ req_tree[1].t = "or"
    /\ \E leaf \in ParsedLeaves : leaf.kind = "external"
    /\ \E leaf \in ParsedLeaves : leaf.kind = "internal"

\* the nodes of a tree
RECURSIVE SubtreesOf(_)
SubtreesOf(node) ==
    {node} \cup UNION {SubtreesOf(node.items[i]) : i \in 1..Len(node.items)}

\* C26: every And/Or of a parsed tree has at least one child.
C26_NoEmptyAndOr ==
    (IsParsed /\ req_tree # None) =>
        \A node \in SubtreesOf(req_tree[1]) : node.t # "leaf" => node.items # <<>>

\* every piece of the text between two separators, or between a separator
\* and an end of the text, has a character that is not whitespace
WellFormedText ==
    \A piece \in Range(Split(req_text, "/")) :
        \A token \in Range(Split(piece, "+")) : Strip(token) # <<>>

\* C26 as amended: every And/Or of the tree parsed from a text without an
\* empty piece has at least one child.
C26_WellFormedTextHasNoEmptyAndOr ==
    (IsParsed /\ req_tree # None /\ WellFormedText) =>
        \A node \in SubtreesOf(req_tree[1]) : node.t # "leaf" => node.items # <<>>

\* "11+a/x": an Or over an And, each with two children
C26_Witness ==
    /\ IsParsed
    /\ WellFormedText
    /\ req_text = Txt.t11 \o <<"+">> \o Txt.ta \o <<"/">> \o Txt.tx
    /\ req_tree[1].t = "or"
    /\ Len(req_tree[1].items) = 2
    /\ req_tree[1].items[1].t = "and"
    /\ Len(req_tree[1].items[1].items) = 2

\* the text "/" is parsed into an Or without children
C26_EmptyOrReached ==
    /\ IsParsed
    /\ req_text = <<"/">>
    /\ req_tree = Some(ReqOr(<<>>))

(***************************************************************************)
(* Further claims about the solve                                           *)
(***************************************************************************)
\* the sum of the semesters that a placement gives to the courses
RECURSIVE SumOfSemesters(_, _)
SumOfSemesters(f, cs) ==
    IF cs = <<>> THEN 0 ELSE f[Head(cs)] + SumOfSemesters(f, Tail(cs))

\* the admissible placements that end as early as any
EarliestPlacements ==
    LET adm == {g \in Placements : Admissible(g)}
        first == Min({LastOf(g) : g \in adm})
    IN  {g \in adm : LastOf(g) = first}

PackedEarly ==
    /\ \A c \in Courses : schedule[c] # None
    /\ LET f == [c \in Courses |-> schedule[c][1]]
       IN  /\ f \in EarliestPlacements
           /\ \A g \in EarliestPlacements :
                 SumOfSemesters(f, inputs.courses) <= SumOfSemesters(g, inputs.courses)

\* C24: with minimize_last_semester on, the Optimal schedule is one of the
\* admissible placements with the smallest final semester and has the
\* smallest sum of semesters among them.
C24_PacksEarlyWithinHorizon ==
    (IsOptimal /\ Scheduled /\ flags.minimize_last_semester) => PackedEarly

\* C24 without the packing: the Optimal schedule ends as early as any
\* admissible placement, for offerings at semester 1 or later.
C24_EndsEarly ==
    (IsOptimal /\ Scheduled /\ flags.minimize_last_semester
        /\ \A c \in Courses : \A s \in AllowedOf(c) : s >= 1) =>
        /\ \A c \in Courses : schedule[c] # None
        /\ [c \in Courses |-> schedule[c][1]] \in EarliestPlacements

\* an Optimal schedule, offerings from semester 1 on, that ends as early as
\* any admissible placement but places a course later than it needs to
C24_Witness ==
    /\ IsOptimal /\ Scheduled /\ flags.minimize_last_semester
    /\ \A c \in Courses : schedule[c] # None /\ \A s \in AllowedOf(c) : s >= 1
    /\ LET f == [c \in Courses |-> schedule[c][1]]
       IN  /\ f \in EarliestPlacements
           /\ \E g \in EarliestPlacements :
                 SumOfSemesters(g, inputs.courses) < SumOfSemesters(f, inputs.courses)

\* the inputs of the request with every semester's cap replaced by the default
CapFreeInputs ==
    [inputs EXCEPT !.max_credits_per_semester =
        [s \in DOMAIN inputs.max_credits_per_semester |-> DefaultCap]]

NoCapConstraint ==
    \A j \in 1..Len(model.constraints) : model.constraints[j].name.tag # "max_credits_sem"

\* C28: with use_credit_limits off the caps have no influence on a request:
\* it ends as the request for the same plan under any other caps does, so its
\* precheck gives the hints it gives under the default caps, and the model
\* that is solved has no constraint made from a cap.
C28_CapsHaveNoInfluenceWhenLimitsOff ==
    (entry = "route" /\ pc = "done" /\ ~flags.use_credit_limits) =>
        /\ precheck_hints = validate_inputs_before_solve(CapFreeInputs)
        /\ NoCapConstraint

\* C28 for the solver alone: with use_credit_limits off the model has no
\* constraint made from a cap.
C28_ModelHasNoCapWhenLimitsOff ==
    ~flags.use_credit_limits => NoCapConstraint

\* a request with use_credit_limits off that the precheck stopped with
\* capacity hints only; under the default caps it has no hint
C28_Witness ==
    /\ entry = "route" /\ pc = "done" /\ ~flags.use_credit_limits
    /\ precheck_hints # <<>>
    /\ \A i \in 1..Len(precheck_hints) :
          precheck_hints[i].kind \in {"course_exceeds_max", "total_exceeds_capacity"}
    /\ validate_inputs_before_solve(CapFreeInputs) = <<>>
    /\ status = None
    /\ saved # <<>>

\* a request with use_credit_limits off and caps that pass the precheck is
\* solved Optimal
C28_SolvedReached ==
    /\ entry = "route" /\ pc = "done" /\ ~flags.use_credit_limits
    /\ precheck_hints = <<>>
    /\ IsOptimal
    /\ \E s \in DOMAIN inputs.max_credits_per_semester :
          inputs.max_credits_per_semester[s] < DefaultCap

\* the request saved the snapshot of an Optimal result
SavedOptimal ==
    /\ entry = "route" /\ pc = "done"
    /\ IsOptimal
    /\ saved # <<>>

\* the semesters of the saved snapshot whose list holds the course
ListedIn(c) ==
    {s \in DOMAIN saved[1].courses_by_semester :
        c \in Range(saved[1].courses_by_semester[s])}

\* C27: after a request that ends Optimal every course of the plan is in
\* exactly one semester list of the saved snapshot, the list of the semester
\* the solver assigned to it.
C27_SnapshotListsEveryCourseOnce ==
    SavedOptimal =>
        \A c \in Courses : schedule[c] # None /\ ListedIn(c) = {schedule[c][1]}

\* C27 for the courses placed in a semester of the plan: such a course is in
\* the list of its semester and in no other; no course is in two lists.
C27_SnapshotListsCoursesPlacedInPlan ==
    SavedOptimal =>
        \A c \in Courses :
            /\ schedule[c] # None
            /\ ListedIn(c) = {schedule[c][1]} \cap DOMAIN inputs.max_credits_per_semester

\* an Optimal result that places a course in a semester after the plan's
\* last one: the course is in no list of the snapshot
C27_Witness ==
    /\ SavedOptimal
    /\ \E c \in Courses :
          /\ schedule[c] # None
          /\ schedule[c][1] > Max(DOMAIN inputs.max_credits_per_semester)
          /\ ListedIn(c) = {}

\* an Optimal result with every course listed in the semester assigned to it
C27_AllListedReached ==
    /\ SavedOptimal
    /\ \A c \in Courses : schedule[c] # None /\ ListedIn(c) = {schedule[c][1]}
    /\ \E c, d \in Courses : schedule[c] # schedule[d]

(***************************************************************************)
(* Claims about the plan's rows and the solve requests (PlanSpec)           *)
(***************************************************************************)
\* the inputs of the latest solve request that built any
HasBuilt == built # None

Built == built[1]

\* _default_allowed_semesters_for_code under the plan's settings and metadata
DefaultWindow(c) ==
    _default_allowed_semesters_for_code(c, db.meta_courses, total_semesters_of(db),
                                        db.semesters_per_year)

StrictlyIncreasing(f) == \A i, j \in DOMAIN f : i < j => f[i] < f[j]

\* the first semester of the academic year of course c lies beyond the plan
YearBeyondPlan(c) ==
    /\ c \in DOMAIN db.meta_courses
    /\ db.meta_courses[c].kind = "int"
    /\ db.meta_courses[c].v >= 1
    /\ (db.meta_courses[c].v - 1)
         * (IF db.semesters_per_year = None THEN 2 ELSE db.semesters_per_year[1]) + 1
       > total_semesters_of(db)

\* C30: under every setting of the plan (total_semesters >= 1, semesters_per_year unset
\* or >= 1) and every academic_year, the default window of a course is a non-empty,
\* strictly increasing list of semesters within 1..total_semesters; hence every course of
\* the inputs that build_inputs_from_plan returns has a non-empty allowed-semester list and
\* build_model does not raise its no-offerings ValueError on them.
C30_DefaultWindowIsNeverEmpty ==
    /\ \A c \in Range(db.codes) :
        /\ DefaultWindow(c) # <<>>
        /\ StrictlyIncreasing(DefaultWindow(c))
        /\ Range(DefaultWindow(c)) \subseteq 1..total_semesters_of(db)
    /\ HasBuilt =>
        /\ \A c \in Range(Built.courses) : Built.allowed_semesters[c] # <<>>
        /\ ~no_offerings_raises(Built.courses, Built.allowed_semesters)

\* a solve has built the inputs of a course whose academic year starts after the plan's
\* last semester, from the default offerings it created: every semester of the plan
C30_Witness ==
    /\ HasBuilt
    /\ \E c \in Range(Built.courses) :
        /\ YearBeyondPlan(c)
        /\ Built.allowed_semesters[c] = RangeList(1, total_semesters_of(db))
        /\ \E r \in db.course :
            /\ r.code = c
            /\ {o.semester_number : o \in {o \in db.offering : o.course_id = r.id}}
               = 1..total_semesters_of(db)

\* a step in which a solve request builds its inputs
SolveStep == \E p \in 1..2 : sess[p].pc = "idle" /\ sess'[p].pc = "save"

\* C29: once delete_course has succeeded for a course, every later solve of the plan
\* leaves it out: its code is not among the courses of the inputs that
\* build_inputs_from_plan returns, and the solve creates no Course row and no offerings
\* for it.
C29_DeletedCourseStaysOut ==
    [][SolveStep =>
        \A c \in hist.deleted :
            /\ c \notin Range(built'[1].courses)
            /\ \A r \in db'.course : r.code # c]_vars

\* a deleted course has a Course row with offerings again: a solve re-created them
C29_RecreatedReached ==
    \E c \in hist.deleted, r \in db.course :
        /\ r.code = c
        /\ \E o \in db.offering : o.course_id = r.id
        /\ HasBuilt
        /\ c \in Range(Built.courses)

\* the PlanSolution rows of the plan
SavedRows == {r \in db.solution : r.plan = 1}

====
